---------------------------- MODULE Spec2Model ----------------------------
(***************************************************************************)
(* A model of the aisbot core: the agent loop (aisbot/agent/loop.py), the  *)
(* message bus and its providers (aisbot/bus/squeue.py, dds_provider.py,   *)
(* zenoh_provider.py) and the MCP verification path of the dispatcher.     *)
(*                                                                         *)
(* Strings that the code splits or concatenates (channel, chat_id,         *)
(* session_key) are sequences of tokens: "cli:u1" is <<"cli", ":", "u1">>. *)
(* Optional values (None or a value) are sets of at most one element.      *)
(***************************************************************************)
EXTENDS Integers, Sequences, FiniteSets, TLC

VARIABLES
    (* ---- agent loop (loop.py) ---- *)
    busKind,        \* which bus the loop and the dispatcher run on
    max_iterations, \* AgentLoop.max_iterations
    running,        \* AgentLoop._running
    pc,             \* position of run(): idle, poll, loop, publish, handler, returned, crashed
    msg,            \* run(): the local msg
    response,       \* run(): the local response (Optional[OutboundMessage])
    err,            \* run(): the exception e bound by "except Exception as e"
    iteration,      \* _process_message: iteration
    messages,       \* _process_message: messages
    sessions,       \* SessionManager: session_key -> transcript
    tool_ctx,       \* (channel, chat_id) held by the message / spawn / cron tools
    outbound,       \* messages published with bus.publish_outbound, in order
    nConsumed,      \* history: number of messages run() has consumed
    turn,           \* history: what the turn in flight has done
    events,         \* history: every consume, LLM call, session commit and publish
    lastPoll,       \* history: what the last consume_inbound of run() did: "msg" (a
                    \* message), "empty" (None, nothing received), "dropped" (None,
                    \* malformed payload) or "raise"
    stopAt          \* history: when stop() was called: was run() waiting for a
                    \* message, and how many it had consumed

agentVars == <<busKind, max_iterations, running, pc, msg, response, err, iteration,
               messages, sessions, tool_ctx, outbound, nConsumed, turn, events, lastPoll,
               stopAt>>

VARIABLES
    (* ---- MCP proxy and the dispatcher's verification path ---- *)
    mcpUp,            \* environment: the MCP servers that answer
    tool_info_cache,  \* MCPProxyTool._tool_info_cache: server -> list of tool infos
    registry,         \* ToolRegistry._tools restricted to the MCP wrappers: name -> wrapper
    mcpLast,          \* history: the last _execute_mcp_tool call and what it returned
    mcpCalls,         \* history: number of calls of MCP tools
    regLast           \* history: what the last registration pass met

mcpVars == <<mcpUp, tool_info_cache, registry, mcpLast, mcpCalls, regLast>>

VARIABLES
    (* ---- the bus: consume_*, subscribe_outbound, dispatch_outbound, stop ---- *)
    outTopic,      \* payloads published on the outbound topic and not yet received
    nArrived,      \* history: number of payloads published on the outbound topic
    subscribers,   \* _outbound_subscribers: channel -> list of callbacks
    dRunning,      \* the bus's _running
    closed,        \* Zenoh: stop() has undeclared the endpoints and closed the session
    dpc,           \* position of dispatch_outbound: idle, top, recv, callbacks, returned, crashed
    dmsg,          \* dispatch_outbound: the local msg
    dIdx,          \* dispatch_outbound: position of "for callback in subscribers"
    dLast,         \* history: the payload dispatch_outbound received last
    outNums,       \* history: the numbers in publish order of the payloads of outTopic
    dSeq,          \* history: the number in publish order of the payload of dLast
    seen,          \* history: per channel, the publish numbers of the messages its
                   \* callbacks were invoked for, in the order of the invocations
    dInvoked,      \* history: the callbacks invoked for dmsg so far
    dRaised,       \* history: the callbacks that raised for dmsg so far
    done,          \* history: the dispatch completed last
    nDone,         \* history: number of completed dispatches
    raisedBefore,  \* history: a callback raised in a dispatch before the last
    busUse,        \* what the process under examination does with its bus:
                   \* "consume" (consume_*), "dispatch" (subscribe, dispatch, stop)
                   \* or "both" (consume_outbound beside a running dispatcher)
    lastConsume    \* history: the last consume_inbound / consume_outbound call

busVars == <<outTopic, nArrived, subscribers, dRunning, closed, dpc, dmsg, dIdx, dLast,
             outNums, dSeq, seen, dInvoked, dRaised, done, nDone, raisedBefore, busUse, lastConsume>>

VARIABLES
    (* ---- ContextCompressor.compress_messages ---- *)
    compConfig,    \* ContextCompressor.config
    compInput,     \* the messages argument of compress_messages
    compResult,    \* what compress_messages returned: (messages, stats), if it has run
    (* ---- SystemPromptCache ---- *)
    system_prompt_cache,  \* SystemPromptCache._cache: key -> (prompt, hash), if any
    cacheWritten,  \* key -> the (prompt, content) of the last write since the last clear
    cacheLast      \* the last call on the cache and what it returned

promptCacheVars == <<system_prompt_cache, cacheWritten, cacheLast>>

VARIABLES
    (* ---- the strategies and the token estimate ---- *)
    sOut,          \* the calls of strategy.compress / compress_tool_result made on one content
    estOut         \* the last call of _estimate_tokens: its messages and its total, if any

strategyVars == <<sOut, estOut>>
compVars == <<compConfig, compInput, compResult, promptCacheVars, strategyVars>>

VARIABLES
    (* ---- one envelope on its way through a topic ---- *)
    wireTopic,     \* the topic the envelope was published on
    wireSent,      \* the message handed to publish_inbound / publish_outbound, if any
    wireText,      \* the text on the topic
    wireGot        \* what consume_inbound / consume_outbound returned, if it has run

wireVars == <<wireTopic, wireSent, wireText, wireGot>>

VARIABLES
    (* ---- tasks of one event loop that share the agent's objects ---- *)
    fetchers,      \* the loops over mcp_proxy.servers in flight: task -> where it is
    cacheWrites,   \* history: server -> number of writes of its tool-info cache entry
    direct         \* the turn of a process_direct call: its position and its locals

taskVars == <<fetchers, cacheWrites, direct>>

vars == <<agentVars, mcpVars, busVars, compVars, wireVars, taskVars>>
restOfAgent == <<mcpVars, busVars, compVars, wireVars, taskVars>>
restOfMcp == <<agentVars, busVars, compVars, wireVars, taskVars>>
restOfBus == <<agentVars, mcpVars, compVars, wireVars, taskVars>>
restOfComp == <<agentVars, mcpVars, busVars, wireVars, taskVars>>
restOfCache == <<agentVars, mcpVars, busVars, compConfig, compInput, compResult, strategyVars,
                 wireVars, taskVars>>
restOfStrategy == <<agentVars, mcpVars, busVars, compConfig, compInput, compResult,
                    promptCacheVars, wireVars, taskVars>>
restOfWire == <<agentVars, mcpVars, busVars, compVars, taskVars>>
restOfFetch == <<agentVars, mcpUp, mcpLast, mcpCalls, regLast, busVars, compVars, wireVars,
                 direct>>
restOfDirect == <<mcpVars, busVars, compVars, wireVars, fetchers, cacheWrites>>

(* ------------------------------ bounds -------------------------------- *)
MaxMsgs  == 2   \* messages consumed by run() in one behaviour
MaxIter  == 2   \* max_iterations ranges over 0..MaxIter
MaxCalls == 2   \* tool calls in one LLM response
MaxMcpCalls == 1  \* _execute_mcp_tool invocations in one behaviour
MaxArgs == 1      \* arguments in one MCP tool call
MaxOut == 2       \* payloads published on the outbound topic in one behaviour
MaxSubs == 3      \* subscribe_outbound calls in one behaviour
MaxHistory == 3  \* messages in the list handed to compress_messages
MaxKeep == 2     \* recent_messages_keep ranges over 0..MaxKeep
MaxRepeat == 2   \* times strategy.compress is applied to what it returned

(* ------------------------------ strings ------------------------------- *)
Colon == ":"
HasColon(s) == \E i \in 1..Len(s) : s[i] = Colon
FirstColon(s) == CHOOSE i \in 1..Len(s) : s[i] = Colon /\ \A j \in 1..(i-1) : s[j] # Colon

\* str.split(":", 1): the text before and after the first colon
SplitOnce(s) ==
    LET i == FirstColon(s)
    IN  <<SubSeq(s, 1, i-1), SubSeq(s, i+1, Len(s))>>

None == {}
Some(x) == {x}
The(o) == CHOOSE x \in o : TRUE

(* ------------------------------ messages ------------------------------ *)
SYSTEM == <<"system">>
CLI == <<"cli">>

\* a chat id without an origin channel, and one whose origin chat id holds a colon
ChatIds == {<<"u1">>, <<"tg", Colon, "u1", Colon, "9">>}

InboundMessage(channel, sender_id, chat_id, content) ==
    [channel |-> channel, sender_id |-> sender_id, chat_id |-> chat_id, content |-> content]

OutboundMessage(channel, chat_id, content) ==
    [channel |-> channel, chat_id |-> chat_id, content |-> content]

session_key(m) == m.channel \o <<Colon>> \o m.chat_id

\* a chat on the cli channel, and subagent announces with and without an origin channel
InboundMsgs ==
    {InboundMessage(CLI, "user", <<"u1">>, <<"hello">>)}
    \cup {InboundMessage(SYSTEM, "subagent", i, <<"done">>) : i \in ChatIds}

NoMsg == InboundMessage(<<>>, "", <<>>, <<>>)

(* --------------------------- LLM responses ---------------------------- *)
ToolCallRequest(id, name) == [id |-> id, name |-> name]

\* a built-in tool, the wrapper of an MCP tool, and a name nothing is registered under
ToolNames == {"read_file", "math_add", "nope"}

\* getattr(self.tools.get(name), "source", None)
ToolSource(name) == IF name = "math_add" THEN Some("mcp") ELSE None

\* the branch the tool loop takes for a tool call
DispatchPath(name) ==
    IF ToolSource(name) = Some("mcp") THEN "_execute_mcp_tool" ELSE "tools.execute"

\* the tool calls of a response: ids 1..n in the order the LLM returned them
ToolCallSeqs ==
    UNION {[1..n -> ToolNames] : n \in 1..MaxCalls}

LLMResponse(content, names) ==
    [content |-> content,
     tool_calls |-> [i \in 1..Len(names) |-> ToolCallRequest(i, names[i])]]

has_tool_calls(r) == Len(r.tool_calls) > 0

CallIds(r) == [i \in 1..Len(r.tool_calls) |-> r.tool_calls[i].id]

\* ProviderFactory.chat when provider.completions raises: the exception is
\* caught and answered as the content of a response without tool calls
ErrorResponse == LLMResponse(Some(<<"Error calling LLM: ", "boom">>), <<>>)

\* what provider.chat can return: the LLM's answers, and the answer made of an exception
LLMResponses ==
    {LLMResponse(c, <<>>) : c \in {None, Some(<<>>), Some(<<"hi">>)}}
    \cup {LLMResponse(None, names) : names \in ToolCallSeqs}
    \cup {ErrorResponse}

(* --------------------------- session store ---------------------------- *)
\* SessionManager.get_or_create: the session of the key, created empty
get_or_create(store, key) ==
    IF key \in DOMAIN store THEN store ELSE store @@ (key :> <<>>)

\* Session.add_message: append one record
add_message(store, key, role, content) ==
    [store EXCEPT ![key] = Append(@, [role |-> role, content |-> content])]

\* Session.get_history: the transcript as LLM messages
get_history(store, key) == store[key]

(* -------------------------- context builder --------------------------- *)
\* ContextBuilder.build_messages is "async def": the list it builds once awaited
build_messages(history, current_message, channel, chat_id) ==
    <<[role |-> "system", content |-> <<"prompt">> \o channel \o chat_id]>>
    \o history
    \o <<[role |-> "user", content |-> current_message]>>

\* loop.py calls build_messages without await: messages is the coroutine object
CallWithoutAwait(list) == [awaited |-> FALSE, body |-> list]

\* ContextBuilder.add_assistant_message: messages.append(msg); a coroutine
\* object has no append, so the call raises AttributeError
CanAppend(ms) == ms.awaited

add_assistant_message(ms, content, tool_calls) ==
    [ms EXCEPT !.body = Append(@,
        [role |-> "assistant",
         content |-> IF content = None THEN <<>> ELSE The(content),
         tool_calls |-> tool_calls])]

\* ContextBuilder.add_tool_result
add_tool_result(ms, tool_call_id, tool_name, result) ==
    [ms EXCEPT !.body = Append(@,
        [role |-> "tool", tool_call_id |-> tool_call_id, name |-> tool_name,
         content |-> result])]

\* the result of a tool call, with the path that produced it
ToolResult(tc) == <<DispatchPath(tc.name), tc.name>>

\* the for loop over response.tool_calls: execute each, append its result
RECURSIVE RunTools(_, _)
RunTools(ms, calls) ==
    IF calls = <<>> THEN ms
    ELSE RunTools(add_tool_result(ms, Head(calls).id, Head(calls).name,
                                  ToolResult(Head(calls))),
                  Tail(calls))

(* ------------------------------ replies ------------------------------- *)
CannedReply == <<"I've completed processing but have no response to give.">>
CannedSystemReply == <<"Background task completed.">>

AttributeErrorAppend == <<"'coroutine' object has no attribute 'append'">>
AttributeErrorNone == <<"'NoneType' object has no attribute 'channel'">>
ProviderError == <<"No provider found for model">>
InitializeError == <<"str expected, not NoneType">>

\* the exceptions ProviderFactory.chat raises before its try block
ChatErrors == {ProviderError, InitializeError}
TransportError == <<"send failed">>

\* run(): the reply sent after processing raised
ErrorReply(m, e) ==
    OutboundMessage(m.channel, m.chat_id, <<"Sorry, I encountered an error: ">> \o e)

\* a variant of Origin that splits chat_id at its last colon
OriginMut(m) ==
    IF HasColon(m.chat_id)
    THEN LET i == CHOOSE k \in 1..Len(m.chat_id) :
                      m.chat_id[k] = Colon /\ \A j \in (k+1)..Len(m.chat_id) : m.chat_id[j] # Colon
         IN  [channel |-> SubSeq(m.chat_id, 1, i-1),
              chat_id |-> SubSeq(m.chat_id, i+1, Len(m.chat_id))]
    ELSE [channel |-> CLI, chat_id |-> m.chat_id]

\* _process_system_message: the origin parsed from chat_id
Origin(m) ==
    IF HasColon(m.chat_id)
    THEN [channel |-> SplitOnce(m.chat_id)[1], chat_id |-> SplitOnce(m.chat_id)[2]]
    ELSE [channel |-> CLI, chat_id |-> m.chat_id]

\* the routing tuple of a turn: the origin for a system message, else the message's own
Route(m) ==
    IF m.channel = SYSTEM THEN Origin(m)
    ELSE [channel |-> m.channel, chat_id |-> m.chat_id]

RouteKey(m) == Route(m).channel \o <<Colon>> \o Route(m).chat_id

\* the user record a turn commits
UserRecord(m) ==
    IF m.channel = SYSTEM
    THEN <<"[System: ", m.sender_id, "] ">> \o m.content
    ELSE m.content

Canned(m) == IF m.channel = SYSTEM THEN CannedSystemReply ELSE CannedReply


(* ------------------------- payloads on a topic ------------------------ *)
\* What a subscriber's recv hands back.  A text is its innermost text (core)
\* wrapped 'quotes' times as a JSON string literal; a core "object" is a JSON
\* object with the keys 'keys', whose "timestamp" value (if present) is 'ts'
\* and whose other values are those of 'env'.
\*   core: nodata  - recv timed out, nothing received
\*         empty   - the empty text
\*         garbage - text that is not JSON
\*         number, list, null - JSON that is not an object
\*         object  - a JSON object
Payload(quotes, core, keys, ts, env) ==
    [quotes |-> quotes, core |-> core, keys |-> keys, ts |-> ts, env |-> env]

NoData == Payload(0, "nodata", {}, "iso", NoMsg)

\* the fields of the envelopes (aisbot/bus/events.py)
InboundRequired == {"channel", "sender_id", "chat_id", "content"}
InboundFields == InboundRequired \cup {"timestamp", "media"}
OutboundRequired == {"channel", "chat_id", "content"}
OutboundFields == OutboundRequired \cup {"reply_to", "timestamp"}

\* json.dumps(msg.__dict__, default=_json_default): every field, the datetime as ISO-8601
Encode(m, fields) == Payload(0, "object", fields, "iso", m)

\* json.loads of a text: a str for a quoted text, else the value of the core
\*   [py |-> "raise"] is json.JSONDecodeError
json_loads(p) ==
    IF p.quotes > 0 THEN [py |-> "str", text |-> [p EXCEPT !.quotes = @ - 1]]
    ELSE CASE p.core \in {"garbage", "empty", "nodata"} -> [py |-> "raise", text |-> p]
           [] p.core = "object" -> [py |-> "dict", text |-> p]
           [] OTHER -> [py |-> p.core, text |-> p]

\* "parse once; if the result is still a string, parse again"
loads_twice(p) ==
    LET first == json_loads(p)
    IN  IF first.py = "str" THEN json_loads(first.text) ELSE first

\* _parse_datetime: datetime.fromisoformat raises ValueError on a string that is not ISO-8601
parse_datetime_raises(p) == "timestamp" \in p.keys /\ p.ts = "bad"

\* InboundMessage(**data) / OutboundMessage(**data): TypeError on a missing or unknown key
ctor_raises(p, required, fields) == ~(required \subseteq p.keys /\ p.keys \subseteq fields)

Got(m) == [kind |-> "msg", msg |-> m, exc |-> ""]
GotNone == [kind |-> "none", msg |-> NoMsg, exc |-> ""]
Raises(e) == [kind |-> "raise", msg |-> NoMsg, exc |-> e]
Blocks == [kind |-> "blocked", msg |-> NoMsg, exc |-> ""]

\* the except clause of the DDS and Zenoh parsers: (json.JSONDecodeError, TypeError)
Caught(e) == e \in {"JSONDecodeError", "TypeError"}

\* DDSProvider.consume_inbound / consume_outbound on what recv returned
dds_consume(p, required, fields) ==
    IF p.core = "nodata" \/ (p.core = "empty" /\ p.quotes = 0) THEN GotNone
    ELSE LET v == loads_twice(p)
             e == IF v.py = "raise" THEN "JSONDecodeError"
                  ELSE IF v.py # "dict" THEN ""
                  ELSE IF parse_datetime_raises(v.text) THEN "ValueError"
                  ELSE IF ctor_raises(v.text, required, fields) THEN "TypeError"
                  ELSE ""
         IN  IF e # "" THEN (IF Caught(e) THEN GotNone ELSE Raises(e))
             ELSE IF v.py # "dict" THEN GotNone
             ELSE Got(v.text.env)

\* ZenohProvider.consume_inbound / consume_outbound: polls try_recv until a
\* sample arrives, then parses sample.payload.to_string() like the DDS provider
zenoh_consume(p, required, fields) ==
    IF p.core = "nodata" THEN Blocks
    ELSE IF p.core = "empty" /\ p.quotes = 0 THEN GotNone
    ELSE dds_consume(p, required, fields)

\* MessageBus.consume_inbound / consume_outbound (squeue.py): json.loads once and
\* the constructor, with no except clause
squeue_consume(p, required, fields) ==
    IF p.core = "nodata" \/ (p.core = "empty" /\ p.quotes = 0) THEN GotNone
    ELSE LET v == json_loads(p)
         IN  IF v.py = "raise" THEN Raises("JSONDecodeError")
             ELSE IF v.py # "dict" THEN Raises("TypeError")
             ELSE IF ctor_raises(v.text, required, fields) THEN Raises("TypeError")
             ELSE Got(v.text.env)

BusKinds == {"squeue", "dds", "zenoh"}

consume(kind, p, required, fields) ==
    CASE kind = "dds" -> dds_consume(p, required, fields)
      [] kind = "zenoh" -> zenoh_consume(p, required, fields)
      [] OTHER -> squeue_consume(p, required, fields)

consume_inbound(kind, p) == consume(kind, p, InboundRequired, InboundFields)
consume_outbound(kind, p) == consume(kind, p, OutboundRequired, OutboundFields)

(* -------------------- the envelope, field by field -------------------- *)
\* datetime(2026, 1, 2, 3, 4, 5, microsecond, tzinfo): tz is "" for a naive one
Datetime(micro, tz) ==
    [py |-> "datetime", date |-> "2026-01-02", time |-> "03:04:05", micro |-> micro, tz |-> tz]

\* timestamps with and without microseconds, naive and with a UTC offset
Timestamps == {Datetime("000000", ""), Datetime("250000", ""), Datetime("000000", "+00:00")}

\* InboundMessage with its timestamp and its media
InboundEnvelope(m, timestamp, media) == m @@ [timestamp |-> timestamp, media |-> media]

\* OutboundMessage with its reply_to (None or an id) and its timestamp
OutboundEnvelope(m, reply_to, timestamp) == m @@ [reply_to |-> reply_to, timestamp |-> timestamp]

InboundEnvelopes ==
    {InboundEnvelope(m, t, md) :
        m \in InboundMsgs, t \in Timestamps, md \in {<<>>, <<"/tmp/a.png", "/tmp/b.png">>}}

OutboundEnvelopes ==
    {OutboundEnvelope(OutboundMessage(c, <<"u1">>, <<"hi">>), r, t) :
        c \in {CLI, <<"tg">>}, r \in {None, Some("m1")}, t \in Timestamps}

\* datetime.isoformat(): the microseconds are written only when they are not
\* 0, the offset only when there is one
isoformat(d) ==
    <<d.date, "T", d.time>>
    \o (IF d.micro # "000000" THEN <<".", d.micro>> ELSE <<>>)
    \o (IF d.tz # "" THEN <<d.tz>> ELSE <<>>)

\* datetime.fromisoformat of a text isoformat wrote
fromisoformat(text) ==
    LET rest == SubSeq(text, 4, Len(text))
        frac == rest # <<>> /\ rest[1] = "."
        zone == IF frac THEN SubSeq(rest, 3, Len(rest)) ELSE rest
    IN  [py |-> "datetime", date |-> text[1], time |-> text[3],
         micro |-> IF frac THEN rest[2] ELSE "000000",
         tz |-> IF zone # <<>> THEN zone[1] ELSE ""]

\* JSON values
JString(text) == [json |-> "string", text |-> text]
JNull == [json |-> "null"]
JArray(items) == [json |-> "array", items |-> items]

\* _json_default: called for the values json cannot write, here the datetime
json_default(obj) == isoformat(obj)

\* json.dumps of the value of one field of msg.__dict__
to_json(field, v) ==
    CASE field = "timestamp" -> JString(json_default(v))
      [] field = "media" -> JArray(v)
      [] field = "reply_to" -> IF v = None THEN JNull ELSE JString(<<The(v)>>)
      [] field = "sender_id" -> JString(<<v>>)
      [] OTHER -> JString(v)

\* json.dumps(msg.__dict__, default=_json_default), value by value
EncodeFields(m) == Payload(0, "object", DOMAIN m, "iso", [f \in DOMAIN m |-> to_json(f, m[f])])

\* json.loads of the value of one field: a str, None or a list
from_json(field, j) ==
    CASE j.json = "null" -> None
      [] j.json = "array" -> j.items
      [] field = "timestamp" -> [py |-> "str", text |-> j.text]
      [] field = "reply_to" -> Some(j.text[1])
      [] field = "sender_id" -> j.text[1]
      [] OTHER -> j.text

\* a variant of _parse_datetime that leaves the timestamp as it was read
parse_datetime_mut(field, v) == v

\* _parse_datetime: the "timestamp" entry, when it is a str, becomes a datetime
parse_datetime(field, v) ==
    IF field = "timestamp" /\ v.py = "str" THEN fromisoformat(v.text) ELSE v

\* the message InboundMessage(**data) / OutboundMessage(**data) is built from
DecodeFields(obj) == [f \in DOMAIN obj |-> parse_datetime(f, from_json(f, obj[f]))]


(* ====================== the bus and its dispatcher ==================== *)
TG == <<"tg">>
BusChannels == {CLI, TG}

\* what channels and other processes put on the outbound topic: the encoding
\* of a message, text that is not JSON, JSON that is not an object, an object
\* with a missing key, an object whose timestamp is not ISO-8601
OutPayloads ==
    {Encode(OutboundMessage(c, <<"u1">>, <<"hi">>), OutboundFields) : c \in BusChannels}
    \cup {Payload(0, "garbage", {}, "iso", NoMsg), Payload(0, "list", {}, "iso", NoMsg)}
    \cup {Payload(0, "object", OutboundFields \ {"content"}, "iso",
                  OutboundMessage(CLI, <<"u1">>, <<"hi">>))}
    \cup {Payload(0, "object", OutboundFields, "bad", OutboundMessage(CLI, <<"u1">>, <<"hi">>))}

\* the same on the inbound topic, and an object with an unknown key
InPayloads ==
    {Encode(InboundMessage(CLI, "user", <<"u1">>, <<"hello">>), InboundFields)}
    \cup {Payload(0, "garbage", {}, "iso", NoMsg), Payload(0, "list", {}, "iso", NoMsg)}
    \cup {Payload(0, "object", ks, "iso", InboundMessage(CLI, "user", <<"u1">>, <<"hello">>)) :
             ks \in {InboundFields \ {"content"}, InboundFields \cup {"extra"}}}
    \cup {Payload(0, "object", InboundFields, "bad",
                  InboundMessage(CLI, "user", <<"u1">>, <<"hello">>))}

NoConsume == [topic |-> "-", payload |-> NoData, result |-> GotNone]

NoDispatch == [msg |-> NoMsg, invoked |-> <<>>, raised |-> {}, registered |-> <<>>]

BusInit(use) ==
    /\ outTopic = <<>>
    /\ nArrived = 0
    /\ subscribers = <<>>
    /\ dRunning = FALSE
    /\ closed = FALSE
    /\ dpc = "idle"
    /\ dmsg = NoMsg
    /\ dIdx = 0
    /\ dLast = NoData
    /\ outNums = <<>>
    /\ dSeq = 0
    /\ seen = [c \in BusChannels |-> <<>>]
    /\ dInvoked = <<>>
    /\ dRaised = {}
    /\ done = NoDispatch
    /\ nDone = 0
    /\ raisedBefore = FALSE
    /\ busUse = use
    /\ lastConsume = NoConsume
    /\ wireTopic = "-"
    /\ wireSent = None
    /\ wireText = NoData
    /\ wireGot = None

\* a publisher's send on the outbound topic
Arrives(p) ==
    /\ nArrived < MaxOut
    /\ nArrived' = nArrived + 1
    /\ outTopic' = Append(outTopic, p)
    /\ outNums' = Append(outNums, nArrived + 1)
    /\ UNCHANGED <<subscribers, dRunning, closed, dpc, dmsg, dIdx, dLast, dSeq, seen, dInvoked, dRaised,
                   done, nDone, raisedBefore, lastConsume, busUse>>

\* the number of callbacks registered so far; the n-th registered callback is n
Registered == LET Sum[cs \in SUBSET BusChannels] ==
                      IF cs = {} THEN 0
                      ELSE LET c == CHOOSE x \in cs : TRUE
                           IN  (IF c \in DOMAIN subscribers THEN Len(subscribers[c]) ELSE 0)
                               + Sum[cs \ {c}]
              IN  Sum[BusChannels]

\* dict.get(channel, [])
SubscribersOf(subs, channel) == IF channel \in DOMAIN subs THEN subs[channel] ELSE <<>>

\* subscribe_outbound(channel, callback)
SubscribeOutbound(channel) ==
    /\ busUse \in {"dispatch", "both"}
    /\ Registered < MaxSubs
    /\ subscribers' = [c \in DOMAIN subscribers \cup {channel} |->
                          IF c = channel
                          THEN Append(SubscribersOf(subscribers, channel), Registered + 1)
                          ELSE subscribers[c]]
    /\ UNCHANGED <<outTopic, outNums, nArrived, dRunning, closed, dpc, dmsg, dIdx, dLast, dSeq, seen, dInvoked,
                   dRaised, done, nDone, raisedBefore, lastConsume, busUse>>

\* consume_inbound() when recv hands back p
ConsumeInbound(p) ==
    /\ busUse = "consume"
    /\ lastConsume' = [topic |-> "inbound", payload |-> p, result |-> consume_inbound(busKind, p)]
    /\ UNCHANGED <<outTopic, outNums, nArrived, subscribers, dRunning, closed, dpc, dmsg, dIdx, dLast, dSeq, seen,
                   dInvoked, dRaised, done, nDone, raisedBefore, busUse>>

\* consume_outbound(): recv hands back the oldest payload, or nothing
ConsumeOutbound ==
    LET p == IF outTopic = <<>> THEN NoData ELSE Head(outTopic)
    IN  /\ busUse \in {"consume", "both"}
        /\ lastConsume' = [topic |-> "outbound", payload |-> p,
                           result |-> consume_outbound(busKind, p)]
        /\ outTopic' = IF outTopic = <<>> THEN outTopic ELSE Tail(outTopic)
        /\ outNums' = IF outTopic = <<>> THEN outNums ELSE Tail(outNums)
        /\ UNCHANGED <<nArrived, subscribers, dRunning, closed, dpc, dmsg, dIdx, dLast, dSeq, seen,
                       dInvoked, dRaised, done, nDone, raisedBefore, busUse>>

\* dispatch_outbound is started: self._running = True
DispatchStart ==
    /\ busUse \in {"dispatch", "both"}
    /\ dpc = "idle"
    /\ dRunning' = TRUE
    /\ dpc' = "top"
    /\ UNCHANGED <<outTopic, outNums, nArrived, subscribers, closed, dmsg, dIdx, dLast, dSeq, seen, dInvoked,
                   dRaised, done, nDone, raisedBefore, lastConsume, busUse>>

\* "while self._running:"
DispatchTop ==
    /\ dpc = "top"
    /\ dpc' = IF dRunning THEN "recv" ELSE "returned"
    /\ UNCHANGED <<outTopic, outNums, nArrived, subscribers, dRunning, closed, dmsg, dIdx, dLast, dSeq, seen,
                   dInvoked, dRaised, done, nDone, raisedBefore, lastConsume, busUse>>

\* stop(): self._running = False; the Zenoh provider also undeclares its
\* endpoints and closes the session
BusStop ==
    /\ busUse \in {"dispatch", "both"}
    /\ dRunning' = FALSE
    /\ closed' = (closed \/ busKind = "zenoh")
    /\ UNCHANGED <<outTopic, outNums, nArrived, subscribers, dpc, dmsg, dIdx, dLast, dSeq, seen, dInvoked, dRaised,
                   done, nDone, raisedBefore, lastConsume, busUse>>

\* a variant of Oldest: the subscriber hands back the payload published last
Newest(topic) == Len(topic)

\* a subscriber's recv hands back the oldest payload of the topic
Oldest(topic) == 1

\* the topic once recv has taken its i-th payload
Without(topic, i) == SubSeq(topic, 1, i - 1) \o SubSeq(topic, i + 1, Len(topic))

\* the publish numbers a channel's callbacks have seen, with one more invocation
Observed(log, n) == IF log # <<>> /\ log[Len(log)] = n THEN log ELSE Append(log, n)

\* the dispatch of dmsg ends: back to the loop test
Dispatched(m, invoked, raised) ==
    /\ done' = [msg |-> m, invoked |-> invoked, raised |-> raised,
                registered |-> SubscribersOf(subscribers, m.channel)]
    /\ nDone' = nDone + 1
    /\ raisedBefore' = (raisedBefore \/ done.raised # {})
    /\ dInvoked' = <<>>
    /\ dRaised' = {}
    /\ dIdx' = 0
    /\ dpc' = "top"

\* one pass of the loop body of dispatch_outbound up to its first callback:
\* recv, the parse of the payload, the lookup of the subscribers.
\*   lib = "raise": try_recv on the closed Zenoh session raises
DispatchRecv(lib) ==
    LET i == Oldest(outTopic)
        p == IF outTopic = <<>> THEN NoData ELSE outTopic[i]
        r == consume_outbound(busKind, p)
    IN  /\ dpc = "recv"
        /\ lib = "raise" => (busKind = "zenoh" /\ closed)
        /\ outTopic' = IF outTopic = <<>> \/ lib = "raise" THEN outTopic ELSE Without(outTopic, i)
        /\ outNums' = IF outTopic = <<>> \/ lib = "raise" THEN outNums ELSE Without(outNums, i)
        /\ IF lib = "raise"
           THEN /\ dpc' = "crashed"
                /\ UNCHANGED <<dmsg, dIdx, dLast, dSeq, dInvoked, dRaised, done, nDone,
                               raisedBefore>>
           ELSE /\ dLast' = p
                /\ dSeq' = IF outTopic = <<>> THEN dSeq ELSE outNums[i]
                /\ CASE r.kind = "msg" ->
                          /\ dmsg' = r.msg
                          /\ IF SubscribersOf(subscribers, r.msg.channel) = <<>>
                             THEN Dispatched(r.msg, <<>>, {})
                             ELSE /\ dIdx' = 1
                                  /\ dpc' = "callbacks"
                                  /\ UNCHANGED <<dInvoked, dRaised, done, nDone, raisedBefore>>
                     [] r.kind = "blocked" ->
                          \* Zenoh: "while True: try_recv(); sleep" goes on
                          UNCHANGED <<dpc, dmsg, dIdx, dInvoked, dRaised, done, nDone, raisedBefore>>
                     [] r.kind = "none" ->
                          \* DDS, Zenoh: nothing received or "continue" on a payload
                          \* that does not parse.  MessageBus: msg = None, and
                          \* msg.channel raises AttributeError
                          /\ dpc' = IF busKind = "squeue" THEN "crashed" ELSE "top"
                          /\ UNCHANGED <<dmsg, dIdx, dInvoked, dRaised, done, nDone, raisedBefore>>
                     [] OTHER ->
                          \* the exception is none of those the loop catches
                          /\ dpc' = "crashed"
                          /\ UNCHANGED <<dmsg, dIdx, dInvoked, dRaised, done, nDone, raisedBefore>>
        /\ UNCHANGED <<nArrived, subscribers, dRunning, closed, seen, lastConsume, busUse>>

\* a variant of DispatchCallback in which a raising callback ends the for loop
DispatchCallbackMut(raises) ==
    LET subs == SubscribersOf(subscribers, dmsg.channel)
        cb == subs[dIdx]
        invoked == Append(dInvoked, cb)
        raised == IF raises THEN dRaised \cup {cb} ELSE dRaised
    IN  /\ dpc = "callbacks"
        /\ IF dIdx < Len(subs) /\ ~raises
           THEN /\ dIdx' = dIdx + 1
                /\ dInvoked' = invoked
                /\ dRaised' = raised
                /\ UNCHANGED <<dpc, done, nDone, raisedBefore>>
           ELSE Dispatched(dmsg, invoked, raised)
        /\ seen' = [seen EXCEPT ![dmsg.channel] = Observed(@, dSeq)]
        /\ UNCHANGED <<outTopic, outNums, nArrived, subscribers, dRunning, closed, dmsg, dLast, dSeq,
                       lastConsume, busUse>>

\* "try: await callback(msg) except Exception: logger.error(...)" for the next
\* callback of the list, and the end of the for loop after the last one
DispatchCallback(raises) ==
    LET subs == SubscribersOf(subscribers, dmsg.channel)
        cb == subs[dIdx]
        invoked == Append(dInvoked, cb)
        raised == IF raises THEN dRaised \cup {cb} ELSE dRaised
    IN  /\ dpc = "callbacks"
        /\ IF dIdx < Len(subs)
           THEN /\ dIdx' = dIdx + 1
                /\ dInvoked' = invoked
                /\ dRaised' = raised
                /\ UNCHANGED <<dpc, done, nDone, raisedBefore>>
           ELSE Dispatched(dmsg, invoked, raised)
        /\ seen' = [seen EXCEPT ![dmsg.channel] = Observed(@, dSeq)]
        /\ UNCHANGED <<outTopic, outNums, nArrived, subscribers, dRunning, closed, dmsg, dLast, dSeq,
                       lastConsume, busUse>>

(* ===================== MCP proxy and verification ===================== *)
\* config.yaml: mcp_servers
McpServers == {"math", "web"}
Transport(server) == IF server = "math" THEN "stdio" ELSE "http"

\* JSON Schema of a tool's parameters (inputSchema)
Schema(properties, required) ==
    [type |-> "object", properties |-> properties, required |-> required]

\* the tools the servers offer
RemoteTools(server) ==
    IF server = "math"
    THEN <<[name |-> "add",
            parameters |-> Schema([p \in {"a", "b"} |-> IF p = "a" THEN "integer" ELSE "number"],
                                  {"a"})]>>
    ELSE <<[name |-> "fetch",
            parameters |-> Schema([p \in {"url", "deep"} |-> IF p = "url" THEN "string" ELSE "boolean"],
                                  {"url"})],
           [name |-> "batch",
            parameters |-> Schema([p \in {"items", "opts"} |-> IF p = "items" THEN "array" ELSE "object"],
                                  {"items"})]>>

\* the Python types of argument values
PyTypes == {"str", "int", "float", "bool", "list", "dict"}

\* isinstance(value, cls): bool is a subclass of int
IsInstance(v, cls) == v = cls \/ (v = "bool" /\ cls = "int")

\* MCPProxyTool._fetch_tools: the tools of the server, or [] when the fetch fails
fetch_tools(server, up) == IF server \in up THEN RemoteTools(server) ELSE <<>>

\* the branches of _validate_mcp_params that report a type error
TypeMismatch(param_type, v) ==
    CASE param_type = "string"  -> ~IsInstance(v, "str")
      [] param_type = "number"  -> ~(IsInstance(v, "int") \/ IsInstance(v, "float"))
      [] param_type = "integer" -> ~IsInstance(v, "int")
      [] param_type = "boolean" -> ~IsInstance(v, "bool")
      [] param_type = "array"   -> ~IsInstance(v, "list")
      [] param_type = "object"  -> ~IsInstance(v, "dict")
      [] OTHER -> FALSE

\* AgentLoop._validate_mcp_params: the errors, each as <<kind, parameter>>
validate_mcp_params(params, schema) ==
    IF schema.type # "object" THEN {}
    ELSE {<<"missing", req>> : req \in {r \in schema.required : r \notin DOMAIN params}}
         \cup {<<"unknown", n>> : n \in {k \in DOMAIN params : k \notin DOMAIN schema.properties}}
         \cup {<<"type", n>> : n \in {k \in DOMAIN params :
                                         /\ k \in DOMAIN schema.properties
                                         /\ TypeMismatch(schema.properties[k], params[k])}}

\* _MCPToolWrapper
Wrapper(server, tool) ==
    [server_name |-> server, mcp_tool_name |-> tool.name, transport |-> Transport(server),
     parameters |-> tool.parameters]

FullName(server, tool_name) == <<server, "_", tool_name>>

NoSchema == [type |-> "", properties |-> <<>>, required |-> {}]

NoCall ==
    [name |-> <<>>, args |-> <<>>, schema |-> NoSchema, kind |-> "-", errors |-> {},
     remote |-> FALSE, up |-> FALSE, after |-> FALSE]

\* the coroutines that loop over mcp_proxy.servers: _register_mcp_tools, started
\* by run(), and _generate_summary, started by a call of the mcp_proxy tool
FetchTasks == {"register", "summary"}

IdleTask == [pc |-> "idle", todo |-> <<>>]

McpInit ==
    /\ mcpUp = McpServers
    /\ tool_info_cache = <<>>
    /\ registry = <<>>
    /\ mcpLast = NoCall
    /\ mcpCalls = 0
    /\ regLast = None
    /\ fetchers = [t \in FetchTasks |-> IdleTask]
    /\ cacheWrites = [sv \in McpServers |-> 0]

\* an MCP server goes down or comes back
ServerFlips(server) ==
    /\ mcpUp' = IF server \in mcpUp THEN mcpUp \ {server} ELSE mcpUp \cup {server}
    /\ UNCHANGED <<tool_info_cache, registry, mcpLast, mcpCalls, regLast>>

\* the cache after "if server_name not in cache: cache[server_name] = await _fetch_tools(cfg)"
Cached(cache, server, up) ==
    IF server \in DOMAIN cache THEN cache ELSE cache @@ (server :> fetch_tools(server, up))

\* the orders in which config.yaml can list the servers
ServerOrders ==
    {o \in [1..Cardinality(McpServers) -> McpServers] : \A i, j \in DOMAIN o : i # j => o[i] # o[j]}

\* the names of the built-in tools AgentLoop.__init__ has registered before any
\* MCP tool: f"{server_name}_{tool_name}" is the name "web_fetch" for the tool
\* "fetch" of the server "web"
LocalTools == {<<"read_file">>, <<"web", "_", "search">>, <<"web", "_", "fetch">>}

\* self.tools.has(name), reg being the MCP wrappers of the registry
Has(reg, name) == name \in DOMAIN reg \/ name \in LocalTools

\* the registry with a wrapper "<server>_<tool>" for every tool of the list
\* whose name is not yet registered
WithWrappers(reg, server, tools) ==
    LET new == {i \in 1..Len(tools) : ~Has(reg, FullName(server, tools[i].name))}
        names == {FullName(server, tools[i].name) : i \in new}
    IN  [n \in DOMAIN reg \cup names |->
            IF n \in DOMAIN reg THEN reg[n]
            ELSE Wrapper(server, tools[CHOOSE i \in new : FullName(server, tools[i].name) = n])]

\* a variant of RegisterLoop in which a failed discovery raises out of the loop
RECURSIVE RegisterLoopMut(_, _, _, _)
RegisterLoopMut(cache, reg, order, up) ==
    IF order = <<>> THEN [cache |-> cache, registry |-> reg, raised |-> FALSE]
    ELSE IF Head(order) \notin DOMAIN cache /\ Head(order) \notin up
         THEN [cache |-> cache, registry |-> reg, raised |-> TRUE]
         ELSE LET c == Cached(cache, Head(order), up)
              IN  RegisterLoopMut(c, WithWrappers(reg, Head(order), c[Head(order)]),
                                  Tail(order), up)

\* _register_mcp_tools: "for server_name, cfg in mcp_proxy.servers.items()":
\* fetch the tools unless cached, register a wrapper for each.  _fetch_tools
\* catches every Exception and answers the (empty) list it has, so the loop
\* goes on to the next server
RECURSIVE RegisterLoop(_, _, _, _)
RegisterLoop(cache, reg, order, up) ==
    IF order = <<>> THEN [cache |-> cache, registry |-> reg, raised |-> FALSE]
    ELSE LET c == Cached(cache, Head(order), up)
         IN  RegisterLoop(c, WithWrappers(reg, Head(order), c[Head(order)]), Tail(order), up)

\* AgentLoop._register_mcp_tools_async, which returns at once when an MCP tool
\* is registered, and _register_mcp_tools over the servers in the order of the
\* configuration
RegisterMcpTools(order) ==
    LET r == RegisterLoop(tool_info_cache, registry, order, mcpUp)
    IN  /\ registry = <<>>
        /\ tool_info_cache' = r.cache
        /\ registry' = r.registry
        /\ regLast' = Some([up |-> mcpUp, fresh |-> McpServers \ DOMAIN tool_info_cache,
                            raised |-> r.raised])
        /\ UNCHANGED <<mcpUp, mcpLast, mcpCalls>>

\* the servers a loop passes without suspending: those with a cache entry
RECURSIVE Hits(_, _)
Hits(cache, todo) ==
    IF todo = <<>> \/ Head(todo) \notin DOMAIN cache THEN <<>>
    ELSE <<Head(todo)>> \o Hits(cache, Tail(todo))

\* the registry after the bodies of _register_mcp_tools for these servers
RECURSIVE RegisterFrom(_, _, _)
RegisterFrom(reg, cache, servers) ==
    IF servers = <<>> THEN reg
    ELSE RegisterFrom(WithWrappers(reg, Head(servers), cache[Head(servers)]), cache,
                      Tail(servers))

\* a loop over the servers runs until the first server without a cache entry,
\* where it is suspended in "await _fetch_tools(cfg)", or until its end
RunLoop(t, cache, passed, todo) ==
    LET hits == Hits(cache, todo)
        rest == SubSeq(todo, Len(hits) + 1, Len(todo))
    IN  /\ fetchers' = [fetchers EXCEPT ![t] =
                            [pc |-> IF rest = <<>> THEN "done" ELSE "fetch", todo |-> rest]]
        /\ registry' = IF t = "register" THEN RegisterFrom(registry, cache, passed \o hits)
                       ELSE registry

\* _register_mcp_tools(mcp_proxy) / _generate_summary() is called and runs to
\* its first await
FetchStart(t, order) ==
    /\ fetchers[t].pc = "idle"
    /\ RunLoop(t, tool_info_cache, <<>>, order)
    /\ UNCHANGED <<tool_info_cache, cacheWrites>>

\* "cache[server_name] = await _fetch_tools(cfg)": the fetch returns, the entry
\* is assigned, and the loop goes on to its next await
FetchReturns(t) ==
    LET server == Head(fetchers[t].todo)
        cache == [sv \in DOMAIN tool_info_cache \cup {server} |->
                     IF sv = server THEN fetch_tools(server, mcpUp) ELSE tool_info_cache[sv]]
    IN  /\ fetchers[t].pc = "fetch"
        /\ tool_info_cache' = cache
        /\ cacheWrites' = [cacheWrites EXCEPT ![server] = @ + 1]
        /\ RunLoop(t, cache, <<server>>, Tail(fetchers[t].todo))

\* the tool info of the name in a cached list, if any
FindTool(server_tools, name) ==
    {server_tools[i] : i \in {j \in 1..Len(server_tools) : server_tools[j].name = name}}

\* AgentLoop._execute_mcp_tool(tool_call, tool), tool the registered wrapper
ExecuteMcpTool(name, args) ==
    LET tool == registry[name]
        server == tool.server_name
        cache == Cached(tool_info_cache, server, mcpUp)
        info == FindTool(cache[server], tool.mcp_tool_name)
        schema == IF info = {} THEN NoSchema ELSE The(info).parameters
        errors == validate_mcp_params(args, schema)
        kind == IF server \notin McpServers THEN "no_server"
                ELSE IF info = {} THEN "no_tool"
                ELSE IF errors # {} THEN "validation"
                ELSE IF tool.transport \in {"stdio", "http"} THEN "called"
                ELSE "transport"
    IN  /\ mcpCalls < MaxMcpCalls
        /\ tool_info_cache' = cache
        /\ mcpLast' = [name |-> name, args |-> args, schema |-> schema, kind |-> kind,
                       errors |-> IF kind = "validation" THEN errors ELSE {},
                       remote |-> kind = "called",
                       up |-> server \in mcpUp, after |-> regLast # None]
        /\ mcpCalls' = mcpCalls + 1
        /\ UNCHANGED <<mcpUp, registry, regLast>>

\* MCPProxyTool.execute(action="call", server, tool_name, arguments): _call_stdio
\* or _call_http, which catch every Exception and answer it as a text
ProxyCall(server, tool_name) ==
    LET kind == IF server \notin McpServers THEN "no_server"
                ELSE IF Transport(server) \notin {"stdio", "http"} THEN "transport"
                ELSE IF server \in mcpUp THEN "proxy_output"
                ELSE "proxy_error"
    IN  /\ mcpCalls < MaxMcpCalls
        /\ mcpLast' = [name |-> <<server, "/", tool_name>>, args |-> <<>>, schema |-> NoSchema,
                       kind |-> kind, errors |-> {},
                       remote |-> kind \in {"proxy_output", "proxy_error"},
                       up |-> server \in mcpUp, after |-> regLast # None]
        /\ mcpCalls' = mcpCalls + 1
        /\ UNCHANGED <<mcpUp, tool_info_cache, registry, regLast>>

\* the arguments an LLM may send: any of the tool's parameters and an unknown
\* one, each with a value of any Python type
ArgNames(name) == DOMAIN registry[name].parameters.properties \cup {"x"}
ArgSets(name) ==
    UNION {[ks -> PyTypes] : ks \in {k \in SUBSET ArgNames(name) : Cardinality(k) <= MaxArgs}}

(* ========================= ContextCompressor ========================== *)
\* CompressionConfig.min_content_length
MinContentLength == 200

\* a content is the text it stands for: its length, and whether a strategy
\* has rewritten it
Content(len) == [len |-> len, rewritten |-> FALSE]

\* the lengths of the contents: below, between and above the thresholds of
\* the strategies and of min_content_length
ContentLengths == {2, 300, 600}

CompMessage(role, content) == [role |-> role, content |-> content]

CompMessages ==
    {CompMessage(r, Content(n)) : r \in {"system", "user", "assistant"}, n \in ContentLengths}

Strategies == {"summary", "truncation", "semantic"}

\* the values of target_context_tokens: 75 and 225 are totals the messages can have
Targets == {0, 75, 225}

CompressionConfig(enabled, target, keep, strategy) ==
    [enabled |-> enabled, target_context_tokens |-> target, recent_messages_keep |-> keep,
     strategy |-> strategy, min_content_length |-> MinContentLength,
     preserve_system_prompt_cache |-> TRUE]

CompressionConfigs ==
    {CompressionConfig(e, t, k, st) :
        e \in BOOLEAN, t \in Targets, k \in 0..MaxKeep, st \in Strategies}

\* TruncationStrategy.compress(content, tenths / 10) of a text without a
\* sentence end: the first target_length characters and "..."
truncate_to(content, tenths) ==
    IF content.len < 200 THEN content
    ELSE LET target_length == (content.len * tenths) \div 10
         IN  IF target_length >= content.len THEN content
             ELSE [len |-> target_length + 3, rewritten |-> TRUE]

\* TruncationStrategy.compress(content, 0.3)
truncate(content) == truncate_to(content, 3)

\* how provider.chat ends for the summary prompt: a summary, an empty text, an
\* exception, or (ProviderFactory.chat, when completions fails) a response
\* whose content is "Error calling LLM: ..."
ProviderAnswers == {"summary", "empty", "raises", "error_response"}

\* SummaryStrategy.compress: what it returns and whether the provider was called
summarize(content, answer) ==
    IF content.len < 400 THEN [content |-> content, llm_called |-> FALSE]
    ELSE [content |-> CASE answer = "summary" -> [len |-> 40, rewritten |-> TRUE]
                        [] answer = "error_response" -> [len |-> 23, rewritten |-> TRUE]
                        [] OTHER -> content,
          llm_called |-> TRUE]

\* strategy.compress(content, target_ratio = tenths / 10); a text of one
\* section makes the semantic strategy fall back to truncation
strategy_compress(strategy, content, tenths, answer) ==
    CASE strategy = "summary" -> summarize(content, answer)
      [] strategy = "truncation" ->
             [content |-> truncate_to(content, tenths), llm_called |-> FALSE]
      [] OTHER ->
             [content |-> IF content.len <= 500 THEN content ELSE truncate_to(content, tenths),
              llm_called |-> FALSE]

\* strategy.compress(content, target_ratio=0.3) in _compress_history, the
\* provider answering a summary
compress(strategy, content) == strategy_compress(strategy, content, 3, "summary").content

\* ContextBuilder.compress_tool_result(result, provider), with a compressor
\* and a provider
compress_tool_result(cfg, result, answer) ==
    IF result.len < 1000 THEN [content |-> result, llm_called |-> FALSE]
    ELSE strategy_compress(cfg.strategy, result, 4, answer)

\* isinstance(content, str): the other contents are lists of parts
IsStr(content) == "len" \in DOMAIN content

\* a multimodal content: image_url parts and a text part
TextPart(len) == [type |-> "text", text |-> Content(len)]
ImagePart == [type |-> "image_url"]
Multimodal(parts) == [parts |-> parts]

\* the tokens _estimate_tokens counts for the parts of a multimodal content
RECURSIVE parts_tokens(_)
parts_tokens(parts) ==
    IF parts = <<>> THEN 0
    ELSE (IF Head(parts).type = "text" THEN Head(parts).text.len \div 4 ELSE 0)
         + parts_tokens(Tail(parts))

\* ContextCompressor._estimate_tokens
RECURSIVE estimate_tokens(_)
estimate_tokens(ms) ==
    IF ms = <<>> THEN 0
    ELSE (IF IsStr(Head(ms).content) THEN Head(ms).content.len \div 4
          ELSE parts_tokens(Head(ms).content.parts))
         + estimate_tokens(Tail(ms))

\* [m for m in messages if pred]
RECURSIVE WithRole(_, _)
WithRole(ms, system) ==
    IF ms = <<>> THEN <<>>
    ELSE (IF (Head(ms).role = "system") = system THEN <<Head(ms)>> ELSE <<>>)
         \o WithRole(Tail(ms), system)

\* Python's messages[-n:]: the last n, and the whole list when n = 0
LastN(ms, n) == IF n = 0 THEN ms ELSE SubSeq(ms, Len(ms) - n + 1, Len(ms))

\* Python's messages[:-n]: all but the last n, and nothing when n = 0
AllButLastN(ms, n) == IF n = 0 THEN <<>> ELSE SubSeq(ms, 1, Len(ms) - n)

\* the loop body of _compress_history for one older message
CompressOne(cfg, m) ==
    IF IsStr(m.content) /\ m.content.len > cfg.min_content_length
    THEN [role |-> m.role, content |-> compress(cfg.strategy, m.content),
          _compressed |-> TRUE, _original_length |-> m.content.len]
    ELSE m

\* a variant of _compress_history that compresses the recent messages too
compress_history_mut(cfg, ms) ==
    IF Len(ms) <= cfg.recent_messages_keep THEN ms
    ELSE [i \in 1..Len(ms) |-> CompressOne(cfg, ms[i])]

\* ContextCompressor._compress_history
compress_history(cfg, ms) ==
    IF Len(ms) <= cfg.recent_messages_keep THEN ms
    ELSE LET recent == LastN(ms, cfg.recent_messages_keep)
             older == AllButLastN(ms, cfg.recent_messages_keep)
         IN  IF older = <<>> THEN ms
             ELSE [i \in 1..Len(older) |-> CompressOne(cfg, older[i])] \o recent

\* ContextCompressor._apply_compression
apply_compression(cfg, ms) ==
    IF ms = <<>> THEN ms
    ELSE IF WithRole(ms, FALSE) = <<>> THEN ms
    ELSE WithRole(ms, TRUE) \o compress_history(cfg, WithRole(ms, FALSE))

\* a variant of compress_messages that compresses a total equal to the target
compress_messages_mut(cfg, ms) ==
    LET total_tokens == estimate_tokens(ms)
        compressed == apply_compression(cfg, ms)
    IN  IF ~cfg.enabled
        THEN [messages |-> ms, stats |-> [compressed |-> FALSE, reason |-> "disabled"]]
        ELSE IF total_tokens < cfg.target_context_tokens
        THEN [messages |-> ms,
              stats |-> [compressed |-> FALSE, original_tokens |-> total_tokens,
                         reason |-> "under_limit"]]
        ELSE [messages |-> compressed,
              stats |-> [compressed |-> TRUE, original_tokens |-> total_tokens,
                         final_tokens |-> estimate_tokens(compressed),
                         reduction |-> total_tokens - estimate_tokens(compressed)]]

\* ContextCompressor.compress_messages
compress_messages(cfg, ms) ==
    LET total_tokens == estimate_tokens(ms)
        compressed == apply_compression(cfg, ms)
    IN  IF ~cfg.enabled
        THEN [messages |-> ms, stats |-> [compressed |-> FALSE, reason |-> "disabled"]]
        ELSE IF total_tokens <= cfg.target_context_tokens
        THEN [messages |-> ms,
              stats |-> [compressed |-> FALSE, original_tokens |-> total_tokens,
                         reason |-> "under_limit"]]
        ELSE [messages |-> compressed,
              stats |-> [compressed |-> TRUE, original_tokens |-> total_tokens,
                         final_tokens |-> estimate_tokens(compressed),
                         reduction |-> total_tokens - estimate_tokens(compressed)]]

(* ------------------------- SystemPromptCache -------------------------- *)
\* the keys of direct calls on the cache (texts are sequences of tokens)
CacheKeys == {<<"key1">>}

\* the contents of direct calls on the cache
CacheContents == {<<"content1">>, <<"content2">>}

\* system prompts, the empty one included
Prompts == {"", "prompt1", "prompt2"}

\* content_sources: a dict keeps the order its items were inserted in, and
\* two dicts are equal when they hold the same items
ContentSources ==
    {<<<<"a", "1">>>>, <<<<"a", "1">>, <<"b", "2">>>>, <<<<"b", "2">>, <<"a", "1">>>>}

\* content_sources.items() as a set: what two equal dicts have in common
Items(sources) == {sources[i] : i \in 1..Len(sources)}

\* the order of the keys of the content sources
KeyRank(name) == IF name = "a" THEN 1 ELSE 2

\* sorted(content_sources.items())
RECURSIVE SortedItems(_)
SortedItems(items) ==
    IF items = {} THEN <<>>
    ELSE LET first == CHOOSE x \in items : \A y \in items : KeyRank(x[1]) <= KeyRank(y[1])
         IN  <<first>> \o SortedItems(items \ {first})

\* the text of a list of items, between the brackets of its type
RECURSIVE ItemsText(_)
ItemsText(items) ==
    IF items = <<>> THEN <<>> ELSE Head(items) \o ItemsText(Tail(items))

\* hashlib.sha256(text.encode()).hexdigest()[:16]: the digests of the texts
\* used here differ from one another
calculate_hash(text) == <<"sha256">> \o text

\* str(content_sources): the items in insertion order
Str(sources) == <<"{">> \o ItemsText(sources) \o <<"}">>

\* ContextCompressor._build_cache_key: the digest of str(sorted(items)), which
\* is the same text for every insertion order
build_cache_key(sources) ==
    calculate_hash(<<"[">> \o ItemsText(SortedItems(Items(sources))) \o <<"]">>)

\* every key the cache is asked for
AllCacheKeys == CacheKeys \cup {build_cache_key(src) : src \in ContentSources}

NoCacheCall == [op |-> "-", key |-> <<>>, prompt |-> "", content |-> <<>>, result |-> None]

\* SystemPromptCache()
CacheInit ==
    /\ system_prompt_cache = [k \in AllCacheKeys |-> None]
    /\ cacheWritten = [k \in AllCacheKeys |-> None]
    /\ cacheLast = NoCacheCall

\* what SystemPromptCache.get(key, content) returns
CacheLookup(cache, key, content) ==
    LET current_hash == calculate_hash(content)
        cached == cache[key]
    IN  IF cached # None /\ The(cached).hash = current_hash
        THEN Some(The(cached).prompt)
        ELSE None

\* the cache after SystemPromptCache.set(key, prompt, content)
CacheStore(cache, key, prompt, content) ==
    [cache EXCEPT ![key] = Some([prompt |-> prompt, hash |-> calculate_hash(content)])]

\* SystemPromptCache.get
CacheGet(key, content) ==
    /\ cacheLast' = [op |-> "get", key |-> key, prompt |-> "", content |-> content,
                     result |-> CacheLookup(system_prompt_cache, key, content)]
    /\ UNCHANGED <<system_prompt_cache, cacheWritten>>

\* SystemPromptCache.set
CacheSet(key, prompt, content) ==
    /\ system_prompt_cache' = CacheStore(system_prompt_cache, key, prompt, content)
    /\ cacheWritten' = [cacheWritten EXCEPT ![key] = Some([prompt |-> prompt, content |-> content])]
    /\ cacheLast' = [op |-> "set", key |-> key, prompt |-> prompt, content |-> content,
                     result |-> None]

\* SystemPromptCache.clear
CacheClear ==
    /\ system_prompt_cache' = [k \in AllCacheKeys |-> None]
    /\ cacheWritten' = [k \in AllCacheKeys |-> None]
    /\ cacheLast' = [NoCacheCall EXCEPT !.op = "clear"]

\* ContextCompressor.compress_system_prompt: `if cached:` is false for None and
\* for the empty prompt
CompressSystemPrompt(system_prompt, content_sources) ==
    LET cache_key == build_cache_key(content_sources)
        cached == CacheLookup(system_prompt_cache, cache_key, Str(content_sources))
        call == [op |-> "compress_system_prompt", key |-> cache_key,
                 prompt |-> system_prompt, content |-> Str(content_sources)]
    IN  IF ~compConfig.preserve_system_prompt_cache
        THEN /\ cacheLast' = call @@ [result |-> Some(system_prompt)]
             /\ UNCHANGED <<system_prompt_cache, cacheWritten>>
        ELSE IF cached # None /\ The(cached) # ""
        THEN /\ cacheLast' = call @@ [result |-> cached]
             /\ UNCHANGED <<system_prompt_cache, cacheWritten>>
        ELSE /\ system_prompt_cache' =
                    CacheStore(system_prompt_cache, cache_key, system_prompt, Str(content_sources))
             /\ cacheWritten' = [cacheWritten EXCEPT ![cache_key] =
                    Some([prompt |-> system_prompt, content |-> Str(content_sources)])]
             /\ cacheLast' = call @@ [result |-> Some(system_prompt)]

\* ContextCompressor(provider, config)
CompInit(cfg) ==
    /\ compConfig = cfg
    /\ compInput = <<>>
    /\ compResult = None
    /\ CacheInit
    /\ sOut = <<>>
    /\ estOut = None

\* CompressionConfig(): the defaults, with the target and the number of recent
\* messages within the bounds
DefaultConfig == CompressionConfig(TRUE, 225, MaxKeep, "semantic")

\* the caller puts one more message on the list it will hand over
AddMessage(m) ==
    /\ compResult = None
    /\ Len(compInput) < MaxHistory
    /\ compInput' = Append(compInput, m)
    /\ UNCHANGED <<compConfig, compResult, promptCacheVars, strategyVars>>

\* compressed, stats = await compressor.compress_messages(messages)
CompressMessages ==
    /\ compResult = None
    /\ compResult' = Some(compress_messages(compConfig, compInput))
    /\ UNCHANGED <<compConfig, compInput, promptCacheVars, strategyVars>>

(* ============================ AgentLoop.run =========================== *)
\* what recv can hand run(): nothing, the encoding of a message, text that
\* is not JSON, or an envelope whose timestamp is not ISO-8601
AgentPayloads ==
    {NoData, Payload(0, "garbage", {}, "iso", NoMsg)}
    \cup {Encode(m, InboundFields) : m \in InboundMsgs}
    \cup {Payload(0, "object", InboundFields, "bad", InboundMessage(CLI, "user", <<"u1">>, <<"hello">>))}

NoTurn ==
    [n |-> 0,               \* the turn of the n-th consumed message
     llm_calls |-> 0,       \* LLM calls made in the turn
     all_tools |-> TRUE,    \* every LLM response so far carried tool calls
     requested |-> <<>>,    \* ids of the tool calls of the last response that had any
     executed |-> <<>>,     \* ids of the tool calls executed for that response
     pubs |-> <<>>,         \* messages published during the turn
     committed |-> FALSE,   \* the turn has appended its records to the session
     failure |-> <<>>,      \* the error text of the LLM call that failed in the turn
     before |-> <<>>]       \* the session store when the turn began

Event(n, kind) == [n |-> n, kind |-> kind]

\* no process_direct call yet
NoDirect == [pc |-> "idle", msg |-> NoMsg, iteration |-> 0,
             messages |-> CallWithoutAwait(<<>>), result |-> None]

AgentInit ==
    /\ busKind \in BusKinds
    /\ max_iterations \in 0..MaxIter
    /\ running = FALSE
    /\ pc = "idle"
    /\ msg = NoMsg
    /\ response = None
    /\ err = <<>>
    /\ iteration = 0
    /\ messages = CallWithoutAwait(<<>>)
    /\ sessions = <<>>
    /\ tool_ctx = [channel |-> <<>>, chat_id |-> <<>>]
    /\ outbound = <<>>
    /\ nConsumed = 0
    /\ turn = NoTurn
    /\ events = <<>>
    /\ lastPoll = "-"
    /\ stopAt = None
    /\ direct = NoDirect

\* run(): self._running = True; no mcp_proxy is registered, so
\* _register_mcp_tools_async returns at once
RunStart ==
    /\ pc = "idle"
    /\ running' = TRUE
    /\ pc' = "poll"
    /\ UNCHANGED <<busKind, max_iterations, msg, response, err, iteration, messages,
                   sessions, tool_ctx, outbound, nConsumed, turn, events, lastPoll, stopAt>>

\* stop(), called by another task while run() is suspended in an await
Stop ==
    /\ pc \in {"poll", "loop", "publish", "handler"}
    /\ running
    /\ running' = FALSE
    /\ stopAt' = Some([polling |-> pc = "poll", n |-> nConsumed])
    /\ UNCHANGED <<busKind, max_iterations, pc, msg, response, err, iteration, messages,
                   sessions, tool_ctx, outbound, nConsumed, turn, events, lastPoll>>

\* asyncio.wait_for(..., timeout=1.0) raises TimeoutError: continue, and
\* "while self._running" is false: run() returns
RunReturn ==
    /\ pc = "poll"
    /\ ~running
    /\ pc' = "returned"
    /\ UNCHANGED <<busKind, max_iterations, running, msg, response, err, iteration, messages,
                   sessions, tool_ctx, outbound, nConsumed, turn, events, lastPoll, stopAt>>

\* asyncio.wait_for(..., timeout=1.0) raises TimeoutError: continue, and
\* "while self._running" is true: the next wait_for
PollTimeout ==
    /\ pc = "poll"
    /\ running
    /\ UNCHANGED vars

\* _process_message / _process_system_message up to the first LLM call
StartTurn(m) ==
    LET key == RouteKey(m)
        store == get_or_create(sessions, key)
    IN  /\ msg' = m
        /\ sessions' = store
        /\ tool_ctx' = Route(m)
        /\ messages' = CallWithoutAwait(
               build_messages(get_history(store, key), m.content,
                              Route(m).channel, Route(m).chat_id))
        /\ iteration' = 0
        /\ nConsumed' = nConsumed + 1
        /\ turn' = [NoTurn EXCEPT !.n = nConsumed + 1, !.before = store]
        /\ events' = Append(events, Event(nConsumed + 1, "consume"))
        /\ pc' = "loop"
        /\ lastPoll' = "msg"
        /\ UNCHANGED <<busKind, max_iterations, running, response, err, outbound, stopAt>>

\* an exception leaves run(): raised by consume_inbound, or raised again inside
\* the except clause (msg is None there, so msg.channel raises AttributeError)
Crash(why) ==
    /\ pc' = "crashed"
    /\ lastPoll' = why
    /\ UNCHANGED <<busKind, max_iterations, running, msg, response, err, iteration,
                   messages, sessions, tool_ctx, outbound, nConsumed, turn, events, stopAt>>

\* mutant: the turn is started as a task and not awaited, so the next poll
\* does not wait for it
PollMut(p) ==
    /\ pc \in {"poll", "loop"}
    /\ running
    /\ nConsumed < MaxMsgs
    /\ consume_inbound(busKind, p).kind = "msg"
    /\ StartTurn(consume_inbound(busKind, p).msg)

\* msg = await asyncio.wait_for(self.bus.consume_inbound(), timeout=1.0), then
\* _process_message(msg).  The flag was read before the await: a stop() that
\* came during the wait is not seen here
Poll(p) ==
    /\ pc = "poll"
    /\ nConsumed < MaxMsgs
    /\ LET r == consume_inbound(busKind, p)
       IN  /\ r.kind # "blocked"
           /\ CASE r.kind = "msg" -> StartTurn(r.msg)
                [] r.kind = "none" -> Crash(IF p = NoData THEN "empty" ELSE "dropped")
                [] OTHER -> Crash("raise")

\* mutant: the user record is not appended
FinishMut(final_content) ==
    LET final == IF final_content = None THEN Canned(msg) ELSE The(final_content)
    IN  /\ sessions' = add_message(sessions, RouteKey(msg), "assistant", final)
        /\ response' = Some(OutboundMessage(Route(msg).channel, Route(msg).chat_id, final))
        /\ pc' = "publish"

\* session.add_message("user", ...); session.add_message("assistant", ...);
\* sessions.save(session); return OutboundMessage(...)
Finish(final_content) ==
    LET final == IF final_content = None THEN Canned(msg) ELSE The(final_content)
        key == RouteKey(msg)
    IN  /\ sessions' = add_message(add_message(sessions, key, "user", UserRecord(msg)),
                                   key, "assistant", final)
        /\ response' = Some(OutboundMessage(Route(msg).channel, Route(msg).chat_id, final))
        /\ pc' = "publish"

\* the while loop is left without a final content: iteration = max_iterations
LoopExit ==
    /\ pc = "loop"
    /\ iteration >= max_iterations
    /\ Finish(None)
    /\ turn' = [turn EXCEPT !.committed = TRUE]
    /\ events' = Append(events, Event(turn.n, "commit"))
    /\ UNCHANGED <<busKind, max_iterations, running, msg, err, iteration, messages,
                   tool_ctx, outbound, nConsumed, lastPoll, stopAt>>

\* response = await self.provider.chat(...) returns r
LLMReturns(r) ==
    /\ pc = "loop"
    /\ iteration < max_iterations
    /\ iteration' = iteration + 1
    /\ IF has_tool_calls(r)
       THEN IF CanAppend(messages)
            THEN /\ messages' = RunTools(add_assistant_message(messages, r.content, r.tool_calls),
                                         r.tool_calls)
                 /\ turn' = [turn EXCEPT !.llm_calls = @ + 1,
                                         !.requested = CallIds(r),
                                         !.executed = CallIds(r)]
                 /\ events' = Append(events, Event(turn.n, "llm"))
                 /\ UNCHANGED <<pc, err, sessions, response>>
            ELSE /\ err' = AttributeErrorAppend
                 /\ pc' = "handler"
                 /\ turn' = [turn EXCEPT !.llm_calls = @ + 1,
                                         !.requested = CallIds(r), !.executed = <<>>]
                 /\ events' = Append(events, Event(turn.n, "llm"))
                 /\ UNCHANGED <<messages, sessions, response>>
       ELSE /\ Finish(r.content)
            /\ turn' = [turn EXCEPT !.llm_calls = @ + 1, !.all_tools = FALSE,
                                    !.committed = TRUE,
                                    !.failure = IF r = ErrorResponse THEN The(r.content) ELSE @]
            /\ events' = events \o <<Event(turn.n, "llm"), Event(turn.n, "commit")>>
            /\ UNCHANGED <<messages, err>>
    /\ UNCHANGED <<busKind, max_iterations, running, msg, tool_ctx, outbound, nConsumed,
                   lastPoll, stopAt>>

\* mutant: the user record is appended before the LLM is called
LLMRaisesMut(e) ==
    /\ pc = "loop"
    /\ iteration < max_iterations
    /\ iteration' = iteration + 1
    /\ err' = e
    /\ pc' = "handler"
    /\ sessions' = add_message(sessions, RouteKey(msg), "user", UserRecord(msg))
    /\ turn' = [turn EXCEPT !.llm_calls = @ + 1, !.all_tools = FALSE, !.failure = e]
    /\ events' = Append(events, Event(turn.n, "llm"))
    /\ UNCHANGED <<busKind, max_iterations, running, msg, response, messages,
                   tool_ctx, outbound, nConsumed, lastPoll, stopAt>>

\* self.provider.chat raises: ProviderFactory.chat finds no provider for the
\* model, or provider.initialize() raises
LLMRaises(e) ==
    /\ pc = "loop"
    /\ iteration < max_iterations
    /\ iteration' = iteration + 1
    /\ err' = e
    /\ pc' = "handler"
    /\ turn' = [turn EXCEPT !.llm_calls = @ + 1, !.all_tools = FALSE, !.failure = e]
    /\ events' = Append(events, Event(turn.n, "llm"))
    /\ UNCHANGED <<busKind, max_iterations, running, msg, response, messages, sessions,
                   tool_ctx, outbound, nConsumed, lastPoll, stopAt>>

\* bus.publish_outbound(m): the message is on the outbound topic; the body of
\* the while loop is over and "while self._running" is read with no await in
\* between
Published(m) ==
    /\ outbound' = Append(outbound, m)
    /\ turn' = [turn EXCEPT !.pubs = Append(@, m)]
    /\ events' = Append(events, Event(turn.n, "publish"))
    /\ pc' = IF running THEN "poll" ELSE "returned"

\* mutant: a publish that raises has already put the reply on the topic
PublishReplyMut(ok) ==
    /\ pc = "publish"
    /\ outbound' = Append(outbound, The(response))
    /\ turn' = [turn EXCEPT !.pubs = Append(@, The(response))]
    /\ events' = Append(events, Event(turn.n, "publish"))
    /\ IF ok THEN pc' = (IF running THEN "poll" ELSE "returned") /\ UNCHANGED err
             ELSE pc' = "handler" /\ err' = TransportError
    /\ UNCHANGED <<busKind, max_iterations, running, msg, response, iteration, messages,
                   sessions, tool_ctx, nConsumed, lastPoll, stopAt>>

\* if response: await self.bus.publish_outbound(response)
PublishReply(ok) ==
    /\ pc = "publish"
    /\ IF ok
       THEN Published(The(response)) /\ UNCHANGED err
       ELSE /\ err' = TransportError
            /\ pc' = "handler"
            /\ UNCHANGED <<outbound, turn, events>>
    /\ UNCHANGED <<busKind, max_iterations, running, msg, response, iteration, messages,
                   sessions, tool_ctx, nConsumed, lastPoll, stopAt>>

\* except Exception as e: publish the error reply; if that raises too, the
\* exception leaves run()
PublishError(ok) ==
    /\ pc = "handler"
    /\ IF ok
       THEN Published(ErrorReply(msg, err))
       ELSE /\ pc' = "crashed"
            /\ UNCHANGED <<outbound, turn, events>>
    /\ UNCHANGED <<busKind, max_iterations, running, msg, response, err, iteration, messages,
                   sessions, tool_ctx, nConsumed, lastPoll, stopAt>>

\* process_direct(content, session_key, channel, chat_id), called from another
\* task of the event loop (the CLI, a cron job): _process_message up to its
\* first LLM call
DirectStart(m) ==
    LET key == RouteKey(m)
        store == get_or_create(sessions, key)
    IN  /\ direct.pc = "idle"
        /\ sessions' = store
        /\ tool_ctx' = Route(m)
        /\ direct' = [pc |-> "loop", msg |-> m, iteration |-> 0,
                      messages |-> CallWithoutAwait(
                          build_messages(get_history(store, key), m.content,
                                         Route(m).channel, Route(m).chat_id)),
                      result |-> None]
        /\ UNCHANGED <<busKind, max_iterations, running, pc, msg, response, err, iteration,
                       messages, outbound, nConsumed, turn, events, lastPoll, stopAt>>

\* the turn of process_direct commits its records and returns the content
DirectFinish(final_content) ==
    LET m == direct.msg
        final == IF final_content = None THEN Canned(m) ELSE The(final_content)
    IN  /\ sessions' = add_message(add_message(sessions, RouteKey(m), "user", UserRecord(m)),
                                   RouteKey(m), "assistant", final)
        /\ direct' = [direct EXCEPT !.pc = "done", !.result = Some(final)]

\* the LLM call of the turn of process_direct returns r; an exception leaves
\* process_direct, which has no handler
DirectLLMReturns(r) ==
    /\ direct.pc = "loop"
    /\ direct.iteration < max_iterations
    /\ IF has_tool_calls(r)
       THEN /\ IF CanAppend(direct.messages)
               THEN direct' = [direct EXCEPT
                                  !.iteration = @ + 1,
                                  !.messages = RunTools(add_assistant_message(
                                                   @, r.content, r.tool_calls), r.tool_calls)]
               ELSE direct' = [direct EXCEPT !.iteration = @ + 1, !.pc = "raised",
                                             !.result = Some(AttributeErrorAppend)]
            /\ UNCHANGED sessions
       ELSE DirectFinish(r.content)
    /\ UNCHANGED <<busKind, max_iterations, running, pc, msg, response, err, iteration,
                   messages, tool_ctx, outbound, nConsumed, turn, events, lastPoll, stopAt>>

\* the LLM call of the turn of process_direct raises
DirectLLMRaises(e) ==
    /\ direct.pc = "loop"
    /\ direct.iteration < max_iterations
    /\ direct' = [direct EXCEPT !.iteration = @ + 1, !.pc = "raised", !.result = Some(e)]
    /\ UNCHANGED <<busKind, max_iterations, running, pc, msg, response, err, iteration,
                   messages, sessions, tool_ctx, outbound, nConsumed, turn, events, lastPoll,
                   stopAt>>

\* the while loop of the turn of process_direct ends without a final content
DirectLoopExit ==
    /\ direct.pc = "loop"
    /\ direct.iteration >= max_iterations
    /\ DirectFinish(None)
    /\ UNCHANGED <<busKind, max_iterations, running, pc, msg, response, err, iteration,
                   messages, tool_ctx, outbound, nConsumed, turn, events, lastPoll, stopAt>>

\* the agent's process consumes from its bus
Init == AgentInit /\ McpInit /\ BusInit("consume") /\ CompInit(DefaultConfig)
\* the agent loop: run() registers the MCP tools before its first poll
Next ==
    \/ (\E order \in ServerOrders : RunStart /\ RegisterMcpTools(order))
          /\ UNCHANGED <<busVars, compVars, wireVars, taskVars>>
    \/ Stop /\ UNCHANGED restOfAgent
    \/ RunReturn /\ UNCHANGED restOfAgent
    \/ PollTimeout /\ UNCHANGED restOfAgent
    \/ (\E p \in AgentPayloads : Poll(p)) /\ UNCHANGED restOfAgent
    \/ LoopExit /\ UNCHANGED restOfAgent
    \/ (\E r \in LLMResponses : LLMReturns(r)) /\ UNCHANGED restOfAgent
    \/ (\E e \in ChatErrors : LLMRaises(e)) /\ UNCHANGED restOfAgent
    \/ (\E ok \in BOOLEAN : PublishReply(ok)) /\ UNCHANGED restOfAgent
    \/ (\E ok \in BOOLEAN : PublishError(ok)) /\ UNCHANGED restOfAgent

Spec == Init /\ [][Next]_vars


(* ======================= properties of AgentLoop.run =================== *)

\* C1: for a consumed message on a non-system channel, at most one
\* OutboundMessage is published before the next message is consumed, whatever
\* the LLM answers and whether processing or publishing raises.
C1_AtMostOnePublish ==
    (turn.n > 0 /\ msg.channel # SYSTEM) => Len(turn.pubs) <= 1

\* a cli turn whose reply could not be published and whose error reply was
C1_Witness ==
    /\ msg.channel = CLI
    /\ turn.committed
    /\ pc = "poll"
    /\ turn.pubs = <<ErrorReply(msg, TransportError)>>

\* C2: every message published for a consumed message m, the normal reply
\* and the error reply alike, is addressed to (m.channel, m.chat_id), or to the
\* origin parsed from m.chat_id when m.channel is "system".
C2_ReplyAddressedToRoute ==
    \A i \in 1..Len(turn.pubs) :
        /\ turn.pubs[i].channel = Route(msg).channel
        /\ turn.pubs[i].chat_id = Route(msg).chat_id

\* C3: a completed turn leaves its session as it was before the turn with
\* exactly two records appended, a user record then an assistant record, and
\* leaves every other session as it was.
C3_TwoRecordsAppended ==
    turn.committed =>
        LET key == RouteKey(msg)
            was == turn.before[key]
            now == sessions[key]
        IN  /\ Len(now) = Len(was) + 2
            /\ SubSeq(now, 1, Len(was)) = was
            /\ now[Len(was) + 1].role = "user"
            /\ now[Len(was) + 2].role = "assistant"
            /\ \A k \in DOMAIN sessions : k # key => sessions[k] = turn.before[k]

\* a system-origin turn that completed on a session which already held a turn
C3_Witness ==
    /\ turn.committed
    /\ msg.channel = SYSTEM
    /\ Len(turn.before[RouteKey(msg)]) = 2

\* C4: no turn calls the LLM more than max_iterations times, and a turn in
\* which every LLM response carries tool calls calls it exactly
\* max_iterations times and ends with the canned reply as its reply and as
\* the assistant record.
C4_CannedAfterMaxIterations ==
    /\ turn.llm_calls <= max_iterations
    /\ (turn.n > 0 /\ turn.all_tools /\ pc # "loop") =>
           /\ turn.llm_calls = max_iterations
           /\ turn.committed
           /\ response = Some(OutboundMessage(Route(msg).channel, Route(msg).chat_id,
                                              Canned(msg)))

\* C5: the tool calls of an LLM response are executed in the order returned,
\* and the message list then ends with the assistant message followed by one
\* tool result per call, in that order, each with the id of its call.
C5_ToolCallsExecutedInOrder ==
    turn.requested # <<>> =>
        LET n == Len(turn.requested)
            b == messages.body
        IN  /\ turn.executed = turn.requested
            /\ Len(b) >= n + 1
            /\ b[Len(b) - n].role = "assistant"
            /\ \A i \in 1..n : /\ b[Len(b) - n + i].role = "tool"
                               /\ b[Len(b) - n + i].tool_call_id = turn.requested[i]

\* C6: messages are processed strictly in consume order: the events of the
\* n-th consumed message all come before those of the (n+1)-th, and a message
\* is consumed only after the reply of the one before it was published.
C6_TurnsInConsumeOrder ==
    \A i \in 1..Len(events) :
        /\ i > 1 => events[i-1].n <= events[i].n
        /\ (i > 1 /\ events[i].kind = "consume") =>
               events[i-1] = Event(events[i].n - 1, "publish")
        /\ events[i].kind # "consume" =>
               \E j \in 1..(i-1) : events[j] = Event(events[i].n, "consume")

\* two messages consumed and both replies published
C6_Witness ==
    /\ nConsumed = 2
    /\ pc = "poll"
    /\ Len(outbound) = 2
    /\ events[Len(events)] = Event(2, "publish")

\* C8: when consume_inbound returns None because nothing was received, run()
\* keeps running.
C8_EmptyPollKeepsRunning ==
    lastPoll = "empty" => pc # "crashed"


C32_RecordsHoldMessageAndReply ==
    turn.committed =>
        LET key == RouteKey(msg)
            was == turn.before[key]
            now == sessions[key]
        IN  /\ now[Len(was) + 1].content = msg.content
            /\ now[Len(was) + 2].content = The(response).content
            /\ \A i \in 1..Len(turn.pubs) :
                   turn.pubs[i] = The(response) \/ turn.pubs[i] = ErrorReply(msg, TransportError)


\* C33: the final reply of a turn is appended to the turn's message list as
\* an assistant message; after one tool call and then a plain-text reply on an
\* empty history the list has exactly the roles system, user, assistant (with
\* the tool call), tool, assistant.
C33_TurnListEndsWithReply ==
    turn.committed =>
        LET b == messages.body
            roles == [i \in 1..Len(b) |-> b[i].role]
        IN  /\ b[Len(b)].role = "assistant"
            /\ b[Len(b)].content = The(response).content
            /\ (Len(turn.requested) = 1 /\ turn.before[RouteKey(msg)] = <<>>) =>
                   roles = <<"system", "user", "assistant", "tool", "assistant">>


\* C36: the reply of a turn is the canned fallback text only if the LLM
\* returned tool calls on each of max_iterations iterations; a response
\* without tool calls ends the turn with its own content as the reply, an
\* empty or absent content included.
C36_CannedOnlyAfterToolCalls ==
    (turn.committed /\ The(response).content = Canned(msg)) =>
        (turn.all_tools /\ turn.llm_calls = max_iterations)


\* the message of process_direct with its default channel and chat id
DirectMsg == InboundMessage(CLI, "user", <<"direct">>, <<"hello">>)

\* run() and a process_direct call as two tasks of one event loop: each is
\* resumed at its awaits (consume, LLM call, publish) in any order
TurnsNext ==
    \/ RunStart /\ UNCHANGED restOfAgent
    \/ (\E p \in AgentPayloads : Poll(p)) /\ UNCHANGED restOfAgent
    \/ LoopExit /\ UNCHANGED restOfAgent
    \/ (\E r \in LLMResponses : LLMReturns(r)) /\ UNCHANGED restOfAgent
    \/ (\E e \in ChatErrors : LLMRaises(e)) /\ UNCHANGED restOfAgent
    \/ PublishReply(TRUE) /\ UNCHANGED restOfAgent
    \/ PublishError(TRUE) /\ UNCHANGED restOfAgent
    \/ DirectStart(DirectMsg) /\ UNCHANGED restOfDirect
    \/ (\E r \in LLMResponses : DirectLLMReturns(r)) /\ UNCHANGED restOfDirect
    \/ (\E e \in ChatErrors : DirectLLMRaises(e)) /\ UNCHANGED restOfDirect
    \/ DirectLoopExit /\ UNCHANGED restOfDirect

TurnsOnly == Init /\ busKind = "dds"
SpecTurns == TurnsOnly /\ [][TurnsNext]_vars

C7_ViolationYieldsDiagnostic ==
    LET args == mcpLast.args
        schema == mcpLast.schema
        admits(param_type, v) ==
            CASE param_type = "string"  -> v = "str"
              [] param_type = "number"  -> v \in {"int", "float"}
              [] param_type = "integer" -> v = "int"
              [] param_type = "boolean" -> v = "bool"
              [] param_type = "array"   -> v = "list"
              [] param_type = "object"  -> v = "dict"
              [] OTHER -> TRUE
        offending ==
            {r \in schema.required : r \notin DOMAIN args}
            \cup {k \in DOMAIN args : k \notin DOMAIN schema.properties}
            \cup {k \in DOMAIN args : /\ k \in DOMAIN schema.properties
                                       /\ ~admits(schema.properties[k], args[k])}
    IN  (mcpLast.kind \in {"validation", "called", "transport"} /\ offending # {})
        => /\ mcpLast.kind = "validation"
           /\ offending \cap {e[2] : e \in mcpLast.errors} # {}
           /\ ~mcpLast.remote

\* C14: the origin of a system message is its chat_id split at the first
\* colon, or ("cli", chat_id) when chat_id has no colon; the turn of the message
\* reads and commits the session "origin_channel:origin_chat_id", and its reply
\* is addressed to the origin.
C14_SystemTurnUsesOrigin ==
    (msg.channel = SYSTEM /\ turn.n > 0) =>
        LET o == tool_ctx
            key == o.channel \o <<Colon>> \o o.chat_id
        IN  /\ IF HasColon(msg.chat_id)
               THEN /\ key = msg.chat_id
                    /\ ~HasColon(o.channel)
               ELSE o = [channel |-> CLI, chat_id |-> msg.chat_id]
            /\ key \in DOMAIN sessions
            /\ \A k \in DOMAIN sessions : k # key => sessions[k] = turn.before[k]
            /\ turn.committed =>
                   /\ Len(sessions[key]) = Len(turn.before[key]) + 2
                   /\ response = Some(OutboundMessage(o.channel, o.chat_id,
                                                      sessions[key][Len(sessions[key])].content))
                   /\ \A i \in 1..Len(turn.pubs) :
                          turn.pubs[i].content = The(response).content
                              => turn.pubs[i] = The(response)

\* the reply of a system turn with the chat_id "tg:u1:9" was published
C14_Witness ==
    /\ msg.channel = SYSTEM
    /\ msg.chat_id = <<"tg", Colon, "u1", Colon, "9">>
    /\ turn.committed
    /\ turn.pubs = <<OutboundMessage(<<"tg">>, <<"u1", Colon, "9">>, <<"hi">>)>>

\* C15: for every tool call of an LLM response exactly one dispatch path runs
\* and exactly one tool-result message is appended: _execute_mcp_tool alone
\* for a tool whose source is "mcp", the registry's execute alone for every
\* other name, registered or not.
C15_OneDispatchPerToolCall ==
    turn.requested # <<>> =>
        LET b == messages.body
            path(name) == IF name = "math_add" THEN "_execute_mcp_tool" ELSE "tools.execute"
        IN  /\ Len(turn.executed) = Len(turn.requested)
            /\ \E a \in 1..Len(b) :
                   /\ b[a].role = "assistant"
                   /\ "tool_calls" \in DOMAIN b[a]
                   /\ Len(b[a].tool_calls) = Len(turn.requested)
                   /\ \A i \in 1..Len(turn.requested) :
                          LET tc == b[a].tool_calls[i]
                              results == {k \in (a+1)..Len(b) :
                                             b[k].role = "tool" /\ b[k].tool_call_id = tc.id}
                          IN  /\ tc.id = turn.requested[i]
                              /\ Cardinality(results) = 1
                              /\ \A k \in results : b[k].content = <<path(tc.name), tc.name>>

\* C18: a failure of the LLM call inside a turn (the provider raises, no
\* provider matches the model, the provider fails to initialise) is caught at
\* the call: the turn makes no further LLM call and ends with the error text
\* as its reply.
C18_LLMFailureBecomesReply ==
    turn.failure # <<>> =>
        /\ pc # "loop"
        /\ turn.committed
        /\ response = Some(OutboundMessage(Route(msg).channel, Route(msg).chat_id, turn.failure))
        /\ \A i \in 1..Len(turn.pubs) :
               turn.pubs[i] = The(response) \/ turn.pubs[i] = ErrorReply(msg, TransportError)

\* the agent under the scheduling of the event loop: run() is a task that is
\* resumed when the await it is suspended in is over (the LLM call, a publish,
\* the one-second timeout of wait_for).  Nothing makes a message arrive.
SpecFair ==
    /\ Init
    /\ [][Next]_vars
    /\ WF_vars(RunReturn /\ UNCHANGED restOfAgent)
    /\ WF_vars(LoopExit /\ UNCHANGED restOfAgent)
    /\ WF_vars(((\E r \in LLMResponses : LLMReturns(r)) \/ (\E e \in ChatErrors : LLMRaises(e)))
                   /\ UNCHANGED restOfAgent)
    /\ WF_vars((\E ok \in BOOLEAN : PublishReply(ok)) /\ UNCHANGED restOfAgent)
    /\ WF_vars((\E ok \in BOOLEAN : PublishError(ok)) /\ UNCHANGED restOfAgent)

\* C13: after stop() run() consumes at most one further message and then
\* returns, and a turn that was in flight when stop() was called has by then
\* committed its session records and published its reply.
C13_StopThenReturn ==
    /\ [](stopAt # None => nConsumed <= The(stopAt).n + 1)
    /\ []((stopAt # None /\ ~The(stopAt).polling /\ pc \in {"returned", "crashed"})
          => /\ \E k \in 1..Len(events) : events[k] = Event(The(stopAt).n, "commit")
             /\ \E k \in 1..Len(events) : events[k] = Event(The(stopAt).n, "publish"))
    /\ [](stopAt # None => <>(pc = "returned"))

\* C16: when the discovery of one MCP server fails, no exception leaves the
\* registration, every tool of every server that answers is still discovered
\* and registered (as it is when every server answers) whatever the order of
\* the servers, and a later call of the failed server returns an error text.
C16_FailedDiscoveryIsContained ==
    regLast # None =>
        LET d == The(regLast)
            answered == d.up \cap d.fresh
        IN  /\ ~d.raised
            /\ \A sv \in answered :
                   /\ tool_info_cache[sv] = RemoteTools(sv)
                   /\ \A order \in ServerOrders :
                          LET all == RegisterLoop(<<>>, <<>>, order, McpServers).registry
                          IN  \A i \in 1..Len(RemoteTools(sv)) :
                                  LET n == FullName(sv, RemoteTools(sv)[i].name)
                                  IN  n \in DOMAIN all =>
                                          /\ n \in DOMAIN registry
                                          /\ registry[n] = all[n]
                                          /\ registry[n] = Wrapper(sv, RemoteTools(sv)[i])
            /\ \A sv \in d.fresh \ d.up :
                   (mcpLast.name = <<sv, "/", RemoteTools(sv)[1].name>> /\ mcpLast.after)
                       => mcpLast.kind = IF mcpLast.up THEN "proxy_output" ELSE "proxy_error"

\* one server failed its discovery, the tools of the other are registered,
\* and a call of the failed server was answered with an error text
C16_Witness ==
    /\ regLast # None
    /\ The(regLast).fresh = McpServers
    /\ \E sv \in McpServers :
           /\ The(regLast).up = McpServers \ {sv}
           /\ DOMAIN registry # {}
           /\ mcpLast.name = <<sv, "/", RemoteTools(sv)[1].name>>
           /\ mcpLast.after
           /\ mcpLast.kind = "proxy_error"

\* C17: an empty cached tool list (no entry, or the empty list left by a
\* failed discovery) is fetched again before it is used: after a registration
\* pass every server that answered during the pass has its tools cached and
\* registered, and the dispatcher finds a tool missing only on a server that
\* did not answer.
C17_EmptyCacheIsRefetched ==
    /\ regLast # None =>
           \A sv \in The(regLast).up :
               /\ tool_info_cache[sv] = RemoteTools(sv)
               /\ \A i \in 1..Len(RemoteTools(sv)) :
                      Has(registry, FullName(sv, RemoteTools(sv)[i].name))
    /\ mcpLast.kind = "no_tool" => ~mcpLast.up

\* C25: in the validation of the arguments of an MCP tool call, a boolean
\* value is rejected for a parameter declared integer and for one declared
\* number, an integer value is accepted for a parameter declared number, and a
\* float value is rejected for a parameter declared integer.
C25_BooleansAreNotNumbers ==
    mcpLast.kind \in {"validation", "called"} =>
        \A n \in DOMAIN mcpLast.args \cap DOMAIN mcpLast.schema.properties :
            LET declared == mcpLast.schema.properties[n]
                v == mcpLast.args[n]
                rejected == <<"type", n>> \in mcpLast.errors
            IN  /\ (v = "bool" /\ declared \in {"integer", "number"}) => rejected
                /\ (v = "int" /\ declared = "number") => ~rejected
                /\ (v = "float" /\ declared = "integer") => rejected

\* C26: after MCP registration the registry holds, for every configured server
\* s and every remote tool t discovered on s, a tool named "s_t" with source
\* "mcp" whose invocation calls t on s; and registering never replaces or
\* removes a tool that is already in the registry.
C26_EveryRemoteToolHasItsWrapper ==
    /\ [](regLast # None =>
            \A sv \in DOMAIN tool_info_cache :
                \A i \in 1..Len(tool_info_cache[sv]) :
                    LET n == FullName(sv, tool_info_cache[sv][i].name)
                    IN  /\ n \in DOMAIN registry
                        /\ registry[n].server_name = sv
                        /\ registry[n].mcp_tool_name = tool_info_cache[sv][i].name)
    /\ [](DOMAIN registry \cap LocalTools = {})
    /\ [][\A n \in DOMAIN registry : n \in DOMAIN registry' /\ registry'[n] = registry[n]]_vars

McpNext ==
    \/ (\E sv \in McpServers : ServerFlips(sv)) /\ UNCHANGED restOfMcp
    \/ (\E order \in ServerOrders : RegisterMcpTools(order)) /\ UNCHANGED restOfMcp
    \/ (\E name \in DOMAIN registry : \E args \in ArgSets(name) : ExecuteMcpTool(name, args))
          /\ UNCHANGED restOfMcp
    \/ (\E sv \in McpServers : ProxyCall(sv, RemoteTools(sv)[1].name)) /\ UNCHANGED restOfMcp

McpOnly == Init /\ max_iterations = MaxIter /\ busKind = "dds"
SpecMcp == McpOnly /\ [][McpNext]_vars

\* C37: for each MCP server the tool-info cache is written at most once: once
\* a server has an entry, no summary, registration or verification fetches its
\* tools again or overwrites the entry, also when two of them were started
\* before either has finished its fetch.
C37_CacheWrittenOnce ==
    \A sv \in McpServers : cacheWrites[sv] <= 1

\* the tasks of the event loop around the cache: the registration of run(),
\* the summary of a mcp_proxy call, tool calls through the wrappers, and the
\* servers going down and up
FetchNext ==
    \/ (\E sv \in McpServers : ServerFlips(sv)) /\ UNCHANGED restOfMcp
    \/ (\E t \in FetchTasks : FetchStart(t, <<"math", "web">>)) /\ UNCHANGED restOfFetch
    \/ (\E t \in FetchTasks : FetchReturns(t)) /\ UNCHANGED restOfFetch
    \/ (\E name \in DOMAIN registry : \E args \in ArgSets(name) : ExecuteMcpTool(name, args))
          /\ UNCHANGED restOfMcp

SpecFetch == McpOnly /\ [][FetchNext]_vars


(* ========================== the bus alone ============================= *)
\* C9: a payload that is not a valid envelope (not JSON, not an object, a
\* missing or unknown field, a timestamp that is not ISO-8601) makes
\* consume_inbound and consume_outbound return None, and dispatch_outbound
\* skips it and keeps running: no exception escapes the bus.
C9_MalformedPayloadDropped ==
    LET valid(p, required, fields) ==
            /\ p.core = "object"
            /\ required \subseteq p.keys
            /\ p.keys \subseteq fields
            /\ "timestamp" \in p.keys => p.ts = "iso"
        malformed(p, required, fields) ==
            p.core # "nodata" /\ p.quotes = 0 /\ ~valid(p, required, fields)
    IN  /\ (/\ lastConsume.topic = "inbound"
            /\ malformed(lastConsume.payload, InboundRequired, InboundFields))
           => lastConsume.result.kind = "none"
        /\ (/\ lastConsume.topic = "outbound"
            /\ malformed(lastConsume.payload, OutboundRequired, OutboundFields))
           => lastConsume.result.kind = "none"
        /\ malformed(dLast, OutboundRequired, OutboundFields) => dpc # "crashed"

\* C10: for each well-formed outbound message dispatch_outbound reads, the
\* callbacks invoked are exactly those registered for the message's channel,
\* each once and in registration order, whether or not one of them raised;
\* and the dispatcher never ends in the middle of the callbacks of a message.
C10_EveryCallbackOnceInOrder ==
    /\ done.invoked = done.registered
    /\ dpc \in {"crashed", "returned"} => (dInvoked = <<>> /\ dRaised = {})
    /\ dRaised # {} => dpc = "callbacks"

\* the first of two callbacks of a channel raised, the second was invoked and
\* a callback of the other channel was not; and a later message was
\* dispatched after a callback had raised
C10_Witness ==
    /\ nDone >= 2
    /\ raisedBefore
    /\ Len(done.invoked) >= 2
    /\ done.invoked[1] \in done.raised
    /\ \E c \in DOMAIN subscribers : c # done.msg.channel /\ subscribers[c] # <<>>

\* C11: a single dispatcher hands the messages of a channel to the channel's
\* callbacks in publish order, and it has finished all the callbacks for one
\* message before it invokes any for the next: the publish numbers of the
\* messages a channel's callbacks were invoked for only ever grow.
C11_CallbacksSeePublishOrder ==
    \A c \in BusChannels :
        \A i, j \in 1..Len(seen[c]) : i < j => seen[c][i] < seen[c][j]

\* two messages of one channel were dispatched, the second to two callbacks
C11_Witness ==
    \E c \in BusChannels :
        /\ Len(seen[c]) = 2
        /\ nDone = 2
        /\ done.msg.channel = c
        /\ Len(done.invoked) >= 2


\* C35: dispatch_outbound neither returns nor raises before stop() is
\* called, whatever it receives of: nothing (the receive times out), a
\* well-formed message, a message for a channel without subscribers, and
\* whichever callbacks raise.
C35_DispatchRunsUntilStop ==
    (/\ dpc \in {"returned", "crashed"}
     /\ dLast = NoData \/ consume_outbound(busKind, dLast).kind = "msg") =>
        (~dRunning \/ closed)

BusNext ==
    \/ (\E p \in OutPayloads : Arrives(p)) /\ UNCHANGED restOfBus
    \/ (\E c \in BusChannels : SubscribeOutbound(c)) /\ UNCHANGED restOfBus
    \/ (\E p \in InPayloads \cup {NoData} : ConsumeInbound(p)) /\ UNCHANGED restOfBus
    \/ ConsumeOutbound /\ UNCHANGED restOfBus
    \/ DispatchStart /\ UNCHANGED restOfBus
    \/ DispatchTop /\ UNCHANGED restOfBus
    \/ (\E lib \in {"ok", "raise"} : DispatchRecv(lib)) /\ UNCHANGED restOfBus
    \/ (\E raises \in BOOLEAN : DispatchCallback(raises)) /\ UNCHANGED restOfBus
    \/ BusStop /\ UNCHANGED restOfBus

BusOnly ==
    /\ AgentInit /\ max_iterations = MaxIter
    /\ McpInit
    /\ \E use \in {"consume", "dispatch"} : BusInit(use)
    /\ CompInit(DefaultConfig)
SpecBus == BusOnly /\ [][BusNext]_vars


\* the bus under the scheduling of the event loop: dispatch_outbound is a task
\* that is resumed whenever it can go on (after the loop test, after recv or
\* sleep, after an awaited callback).  A closed Zenoh session is free to raise
\* or not; nothing makes a message arrive.
SpecBusFair ==
    /\ BusOnly
    /\ [][BusNext]_vars
    /\ WF_vars(DispatchTop /\ UNCHANGED restOfBus)
    /\ WF_vars(DispatchRecv("ok") /\ UNCHANGED restOfBus)
    /\ WF_vars((\E raises \in BOOLEAN : DispatchCallback(raises)) /\ UNCHANGED restOfBus)

\* C12: once stop() was called on a DDS or Zenoh provider whose
\* dispatch_outbound is running, dispatch_outbound comes to an end, also when
\* no further outbound message arrives.
C12_StopEndsDispatch ==
    [](  (/\ busKind \in {"dds", "zenoh"}
          /\ dpc \in {"top", "recv", "callbacks"}
          /\ ~dRunning)
       => <>(dpc \in {"returned", "crashed"}))


\* a channel publishes a well-formed message for a channel with a callback
\* while dispatch_outbound is running
PublishWhileDispatching(c) ==
    /\ dpc \in {"top", "recv", "callbacks"}
    /\ dRunning
    /\ SubscribersOf(subscribers, c) # <<>>
    /\ Arrives(Encode(OutboundMessage(c, <<"u1">>, <<"hi">>), OutboundFields))

\* one DDS provider whose dispatcher runs while another task of the process
\* calls consume_outbound: both await self._outbound_sub.recv
SharedNext ==
    \/ (\E c \in BusChannels : SubscribeOutbound(c)) /\ UNCHANGED restOfBus
    \/ DispatchStart /\ UNCHANGED restOfBus
    \/ DispatchTop /\ UNCHANGED restOfBus
    \/ DispatchRecv("ok") /\ UNCHANGED restOfBus
    \/ (\E raises \in BOOLEAN : DispatchCallback(raises)) /\ UNCHANGED restOfBus
    \/ (\E c \in BusChannels : PublishWhileDispatching(c)) /\ UNCHANGED restOfBus
    \/ ConsumeOutbound /\ UNCHANGED restOfBus

SharedOnly ==
    /\ AgentInit /\ max_iterations = MaxIter /\ busKind = "dds"
    /\ McpInit
    /\ BusInit("both")
    /\ CompInit(DefaultConfig)

\* the dispatcher is a task that is resumed whenever it can go on; nothing
\* obliges the other task to call consume_outbound, and nothing forbids it
SpecSharedFair ==
    /\ SharedOnly
    /\ [][SharedNext]_vars
    /\ WF_vars(DispatchTop /\ UNCHANGED restOfBus)
    /\ WF_vars(DispatchRecv("ok") /\ UNCHANGED restOfBus)
    /\ WF_vars((\E raises \in BOOLEAN : DispatchCallback(raises)) /\ UNCHANGED restOfBus)

\* C39: every well-formed outbound message published while dispatch_outbound
\* is running, for a channel with a subscribed callback, is eventually passed
\* to the callbacks of its channel, and only once, also when consume_outbound
\* is called on the same provider meanwhile.
C39_PublishedIsDispatched ==
    /\ \A n \in 1..MaxOut :
           (nArrived >= n) ~> (\E c \in BusChannels : \E i \in 1..Len(seen[c]) : seen[c][i] = n)
    /\ [](\A c \in BusChannels :
             \A i, j \in 1..Len(seen[c]) : i < j => seen[c][i] # seen[c][j])


(* ====================== the compressor alone ========================== *)
\* C19: compress_messages returns its input list unchanged with compressed =
\* false and the reason "disabled" whenever compression is disabled, and
\* otherwise with the reason "under_limit" whenever the estimated total is at
\* most target_context_tokens, a total equal to the target included.
C19_UnchangedWhenDisabledOrUnderLimit ==
    compResult # None =>
        LET r == The(compResult)
        IN  /\ ~compConfig.enabled =>
                   /\ r.messages = compInput
                   /\ r.stats.compressed = FALSE
                   /\ r.stats.reason = "disabled"
            /\ (compConfig.enabled
                  /\ estimate_tokens(compInput) <= compConfig.target_context_tokens) =>
                   /\ r.messages = compInput
                   /\ r.stats.compressed = FALSE
                   /\ r.stats.reason = "under_limit"

\* compression is enabled and the list handed over has exactly the target's
\* tokens, more than none
C19_Witness ==
    /\ compResult # None
    /\ compConfig.enabled
    /\ compConfig.target_context_tokens > 0
    /\ estimate_tokens(compInput) = compConfig.target_context_tokens
    /\ The(compResult).stats.reason = "under_limit"

C21_FewMessagesReturnedAsGiven ==
    (/\ compResult # None
     /\ compConfig.enabled
     /\ estimate_tokens(compInput) > compConfig.target_context_tokens
     /\ Len(WithRole(compInput, FALSE)) <= compConfig.recent_messages_keep) =>
        The(compResult).messages = compInput

\* C22: whenever compress_messages returns stats with compressed = true, the
\* estimate of the returned list is strictly smaller than the estimate of its
\* input: the reduction is positive.
C22_CompressedMeansSmaller ==
    (compResult # None /\ The(compResult).stats.compressed) =>
        /\ estimate_tokens(The(compResult).messages) < estimate_tokens(compInput)
        /\ The(compResult).stats.reduction > 0

\* C34: whenever compress_messages compresses, the output has as many
\* messages as the input, the system messages first and then the others, each
\* group in its original order and each message with its role; a message
\* carries _compressed and _original_length exactly when it is an older
\* (non-recent) message whose content the strategy rewrote, and every other
\* message is kept verbatim.
C34_CompressedOutputShape ==
    (compResult # None /\ The(compResult).stats.compressed) =>
        LET out == The(compResult).messages
            system == WithRole(compInput, TRUE)
            given == system \o WithRole(compInput, FALSE)
            Older(i) == /\ i > Len(system)
                        /\ i <= Len(given) - compConfig.recent_messages_keep
            Flagged(m) == "_compressed" \in DOMAIN m
        IN  /\ Len(out) = Len(compInput)
            /\ \A i \in 1..Len(out) :
                   /\ out[i].role = given[i].role
                   /\ Flagged(out[i]) <=> (Older(i) /\ out[i].content # given[i].content)
                   /\ Flagged(out[i]) =>
                          (out[i]._compressed /\ out[i]._original_length = given[i].content.len)
                   /\ ~Flagged(out[i]) => out[i] = given[i]

CompNext ==
    \/ (\E m \in CompMessages : AddMessage(m)) /\ UNCHANGED restOfComp
    \/ CompressMessages /\ UNCHANGED restOfComp

CompOnly ==
    /\ AgentInit /\ max_iterations = MaxIter /\ busKind = "dds"
    /\ McpInit
    /\ BusInit("consume")
    /\ \E cfg \in CompressionConfigs : CompInit(cfg)
SpecCompress == CompOnly /\ [][CompNext]_vars


(* ==================== one envelope through a topic ==================== *)
\* publish_inbound(msg)
PublishInbound(m) ==
    /\ wireSent = None
    /\ wireTopic' = "inbound"
    /\ wireSent' = Some(m)
    /\ wireText' = EncodeFields(m)
    /\ UNCHANGED wireGot

\* publish_outbound(msg)
PublishOutbound(m) ==
    /\ wireSent = None
    /\ wireTopic' = "outbound"
    /\ wireSent' = Some(m)
    /\ wireText' = EncodeFields(m)
    /\ UNCHANGED wireGot

\* the transport hands the text over as a JSON string literal (double-encoded)
DoubleEncode ==
    /\ wireSent # None /\ wireGot = None
    /\ wireText.quotes = 0
    /\ wireText' = [wireText EXCEPT !.quotes = 1]
    /\ UNCHANGED <<wireTopic, wireSent, wireGot>>

\* consume_inbound() / consume_outbound() on the text of the topic
ConsumeWire ==
    /\ wireSent # None /\ wireGot = None
    /\ LET r == IF wireTopic = "inbound" THEN consume_inbound(busKind, wireText)
                ELSE consume_outbound(busKind, wireText)
       IN  wireGot' = Some(IF r.kind = "msg" THEN Got(DecodeFields(r.msg)) ELSE r)
    /\ UNCHANGED <<wireTopic, wireSent, wireText>>

\* C24: consuming the payload publish_inbound / publish_outbound produced
\* yields a message equal to the published one in every field, the timestamp
\* included, and a payload that was JSON-encoded twice decodes to the same
\* message as the singly encoded one.
C24_EnvelopeRoundTrip ==
    wireGot # None => The(wireGot) = Got(The(wireSent))

\* a double-encoded inbound envelope with microseconds and media was consumed
C24_Witness ==
    /\ wireGot # None
    /\ wireTopic = "inbound"
    /\ wireText.quotes = 1
    /\ The(wireSent).timestamp.micro # "000000"
    /\ The(wireSent).media # <<>>
    /\ The(wireGot).kind = "msg"
    /\ The(wireGot).msg.timestamp.py = "datetime"

WireNext ==
    \/ (\E m \in InboundEnvelopes : PublishInbound(m)) /\ UNCHANGED restOfWire
    \/ (\E m \in OutboundEnvelopes : PublishOutbound(m)) /\ UNCHANGED restOfWire
    \/ DoubleEncode /\ UNCHANGED restOfWire
    \/ ConsumeWire /\ UNCHANGED restOfWire

\* the providers the bus factory creates
WireOnly ==
    /\ AgentInit /\ max_iterations = MaxIter /\ busKind \in {"dds", "zenoh"}
    /\ McpInit
    /\ BusInit("consume")
    /\ CompInit(DefaultConfig)
SpecWire == WireOnly /\ [][WireNext]_vars


(* ============== the strategies and the token estimate ================= *)
\* the lengths of the contents handed to a strategy: none, short, at and
\* above each threshold
StrategyLengths == {0, 150, 200, 400, 500, 600, 1000, 2000}

\* the message lists handed to _estimate_tokens: texts of 2, 8 and 300
\* characters, and a multimodal content of an image and a text
EstimateLists ==
    LET ms == {CompMessage("user", Content(n)) : n \in {2, 8, 300}}
              \cup {CompMessage("user", Multimodal(<<ImagePart, TextPart(n)>>)) : n \in {2, 8}}
    IN  {<<>>} \cup {<<m>> : m \in ms} \cup {<<m1, m2>> : m1 \in ms, m2 \in ms}

\* await strategy.compress(content, target_ratio=0.3) with the strategy of the
\* configuration: on a content of the caller, then on what it returned
StrategyCompress(content, answer) ==
    /\ Len(sOut) < MaxRepeat
    /\ \A i \in 1..Len(sOut) : sOut[i].fn = "compress"
    /\ sOut # <<>> => content = sOut[Len(sOut)].result
    /\ LET r == strategy_compress(compConfig.strategy, content, 3, answer)
       IN  sOut' = Append(sOut, [fn |-> "compress", input |-> content, answer |-> answer,
                                 result |-> r.content, llm_called |-> r.llm_called])
    /\ UNCHANGED estOut

\* await context.compress_tool_result(result, provider)
CompressToolResult(result, answer) ==
    /\ sOut = <<>>
    /\ LET r == compress_tool_result(compConfig, result, answer)
       IN  sOut' = <<[fn |-> "compress_tool_result", input |-> result, answer |-> answer,
                      result |-> r.content, llm_called |-> r.llm_called]>>
    /\ UNCHANGED estOut

\* self._estimate_tokens(messages)
EstimateTokens(ms) ==
    /\ estOut = None
    /\ estOut' = Some([messages |-> ms, total |-> estimate_tokens(ms)])
    /\ UNCHANGED sOut

\* C27: for the truncation and the semantic strategy at a fixed target ratio
\* below 1, compressing what compress returned gives the same text up to a
\* trailing ellipsis, also when the first result is still at or above the
\* strategy's length threshold.
C27_CompressIsIdempotent ==
    (/\ compConfig.strategy \in {"truncation", "semantic"}
     /\ Len(sOut) >= 2
     /\ sOut[2].fn = "compress") =>
        LET Stripped(c) == IF c.rewritten THEN c.len - 3 ELSE c.len
        IN  Stripped(sOut[2].result) = Stripped(sOut[1].result)

\* C28: a content whose length is exactly at a threshold is returned
\* unchanged: 200 characters by the truncation strategy, 400 by the summary
\* strategy (with no LLM call), 500 by the semantic strategy, and a tool
\* result of 1000 characters by compress_tool_result.
C28_AtThresholdUnchanged ==
    sOut # <<>> =>
        LET c == sOut[1]
            threshold == CASE c.fn = "compress_tool_result" -> 1000
                           [] compConfig.strategy = "truncation" -> 200
                           [] compConfig.strategy = "summary" -> 400
                           [] OTHER -> 500
        IN  c.input.len = threshold => (c.result = c.input /\ ~c.llm_called)

\* C29: the token estimate of a message list is the sum, over every string
\* content and every text part of a multimodal content, of the character
\* count divided by 4 and rounded up; image_url parts count nothing.
C29_EstimateIsSumOfCeilings ==
    estOut # None =>
        LET ms == The(estOut).messages
            Ceil4(n) == (n + 3) \div 4
            Texts(c) == IF IsStr(c) THEN <<c.len>>
                        ELSE [i \in 1..Len(c.parts) |->
                                 IF c.parts[i].type = "text" THEN c.parts[i].text.len ELSE 0]
            SumSeq(q) == IF Len(q) = 0 THEN 0
                         ELSE IF Len(q) = 1 THEN Ceil4(q[1])
                         ELSE Ceil4(q[1]) + Ceil4(q[2])
            Total(k) == IF k = 0 THEN 0
                        ELSE IF k = 1 THEN SumSeq(Texts(ms[1].content))
                        ELSE SumSeq(Texts(ms[1].content)) + SumSeq(Texts(ms[2].content))
        IN  The(estOut).total = Total(Len(ms))

\* C30: on any failure of the summarisation LLM call, however the provider
\* reports it, SummaryStrategy.compress returns the original content
\* unchanged.
C30_FailedSummaryKeepsContent ==
    \A i \in 1..Len(sOut) :
        (/\ sOut[i].fn = "compress"
         /\ compConfig.strategy = "summary"
         /\ sOut[i].llm_called
         /\ sOut[i].answer \in {"raises", "error_response"}) =>
            sOut[i].result = sOut[i].input

StrategyNext ==
    \/ (\E n \in StrategyLengths, a \in ProviderAnswers :
           sOut = <<>> /\ StrategyCompress(Content(n), a))
          /\ UNCHANGED restOfStrategy
    \/ (\E a \in ProviderAnswers :
           sOut # <<>> /\ StrategyCompress(sOut[Len(sOut)].result, a))
          /\ UNCHANGED restOfStrategy
    \/ (\E n \in StrategyLengths, a \in ProviderAnswers : CompressToolResult(Content(n), a))
          /\ UNCHANGED restOfStrategy
    \/ (\E ms \in EstimateLists : EstimateTokens(ms)) /\ UNCHANGED restOfStrategy

StrategyOnly ==
    /\ AgentInit /\ max_iterations = MaxIter /\ busKind = "dds"
    /\ McpInit
    /\ BusInit("consume")
    /\ \E st \in Strategies : CompInit([DefaultConfig EXCEPT !.strategy = st])
SpecStrategy == StrategyOnly /\ [][StrategyNext]_vars


(* ====================== the system-prompt cache ======================= *)
\* C23: a lookup for key k with content c returns prompt p exactly when the
\* most recent write under k since the last clear stored p with content
\* identical to c, and is a miss otherwise; a lookup never changes the cache;
\* and a compress_system_prompt call whose content sources equal those of an
\* earlier call since the last clear returns the prompt that call cached.
C23_CacheHitIffLastWriteMatches ==
    /\ [](cacheLast.op = "get" =>
            LET w == cacheWritten[cacheLast.key]
            IN  cacheLast.result =
                    IF w # None /\ The(w).content = cacheLast.content
                    THEN Some(The(w).prompt) ELSE None)
    /\ [][cacheLast'.op = "get" => system_prompt_cache' = system_prompt_cache]_vars
    /\ [][(cacheLast'.op = "compress_system_prompt"
            /\ compConfig.preserve_system_prompt_cache
            /\ cacheWritten[cacheLast'.key] # None) =>
               cacheLast'.result = Some(The(cacheWritten[cacheLast'.key]).prompt)]_vars

CacheNext ==
    \/ (\E k \in CacheKeys, c \in CacheContents : CacheGet(k, c))
          /\ UNCHANGED restOfCache
    \/ (\E k \in CacheKeys, p \in Prompts, c \in CacheContents : CacheSet(k, p, c))
          /\ UNCHANGED restOfCache
    \/ CacheClear
          /\ UNCHANGED restOfCache
    \/ (\E p \in Prompts, src \in ContentSources : CompressSystemPrompt(p, src))
          /\ UNCHANGED restOfCache

CacheOnly ==
    /\ AgentInit /\ max_iterations = MaxIter /\ busKind = "dds"
    /\ McpInit
    /\ BusInit("consume")
    /\ \E preserve \in BOOLEAN :
          CompInit([DefaultConfig EXCEPT !.preserve_system_prompt_cache = preserve])
SpecCache == CacheOnly /\ [][CacheNext]_vars

=============================================================================
